---- MODULE Spec2Model ----
(***************************************************************************)
(* Measure/coordinate algebra of src/src/utils/geometryUtils.ts:           *)
(* vertex indexing over multipart polylines, segment bracketing, point     *)
(* creation at a measure, station resolution and range trimming.           *)
(*                                                                         *)
(* JavaScript numbers are modelled as exact rationals <<n, d>> (d > 0, in  *)
(* lowest terms) extended with NaN, +Infinity, -Infinity and `undefined`;  *)
(* floating-point rounding is not modelled.                                *)
(***************************************************************************)
EXTENDS Integers, Sequences, FiniteSets, TLC

VARIABLES
    featureSet,      \* the caller-owned FeatureSet that trimFeatureSetToRange mutates
    featureSetCopy,  \* an equal, independent FeatureSet (a second caller's copy)
    config,          \* LinearReferencingConfig (immutable)
    pc,              \* "ready" | "returned" | "threw": outcome of the call on featureSet
    call,            \* arguments and outcome of the call on featureSet
    before,          \* featureSet as it was when that call started
    copyCall,        \* arguments and outcome of the call on featureSetCopy
    ret              \* arguments and result of the last pure-function call

vars == <<featureSet, featureSetCopy, config, pc, call, before, copyCall, ret>>

-----------------------------------------------------------------------------
(* Bounds of the checked input space *)

\* vertex measures are the integers 0..MaxM; ranges and targets are the
\* half-steps 0, 1/2, 1, ... MaxM
MaxM == 2

-----------------------------------------------------------------------------
(* JavaScript numbers *)

NaN == <<0, 0>>
PosInf == <<1, 0>>
NegInf == <<-1, 0>>
Undefined == <<0, -1>>

Abs(n) == IF n < 0 THEN -n ELSE n

RECURSIVE Gcd(_, _)
Gcd(a, b) == IF b = 0 THEN a ELSE Gcd(b, a % b)

Norm(n, d) ==
    IF d = 0 THEN (IF n = 0 THEN NaN ELSE IF n > 0 THEN PosInf ELSE NegInf)
    ELSE LET g == Gcd(Abs(n), Abs(d))
             s == IF d < 0 THEN -1 ELSE 1
         IN  <<(s * n) \div g, (s * d) \div g>>

R(n) == <<n, 1>>
Frac(n, d) == Norm(n, d)

\* ToNumber: undefined converts to NaN
ToNum(v) == IF v[2] < 0 THEN NaN ELSE v
IsNaN(v) == ToNum(v) = NaN
IsInf(v) == v = PosInf \/ v = NegInf
IsFinite(v) == v[2] > 0

\* a < b
Lt(a, b) ==
    IF IsNaN(a) \/ IsNaN(b) THEN FALSE
    ELSE IF IsInf(a) /\ IsInf(b) THEN a[1] < b[1]
    ELSE a[1] * b[2] < b[1] * a[2]
\* a > b, a <= b, a >= b
Gt(a, b) == Lt(b, a)
Le(a, b) == ~IsNaN(a) /\ ~IsNaN(b) /\ ~Lt(b, a)
Ge(a, b) == Le(b, a)
\* a === b
SEq(a, b) == a = b /\ a # NaN

Neg(a) == IF IsNaN(a) THEN NaN ELSE <<-a[1], a[2]>>
Add(a, b) ==
    IF IsNaN(a) \/ IsNaN(b) THEN NaN
    ELSE IF IsInf(a) /\ IsInf(b) THEN (IF a = b THEN a ELSE NaN)
    ELSE IF IsInf(a) THEN a
    ELSE IF IsInf(b) THEN b
    ELSE Norm(a[1] * b[2] + b[1] * a[2], a[2] * b[2])
Sub(a, b) == Add(a, Neg(b))
Sign(a) == IF a[1] > 0 THEN 1 ELSE IF a[1] < 0 THEN -1 ELSE 0
Mul(a, b) ==
    IF IsNaN(a) \/ IsNaN(b) THEN NaN
    ELSE IF IsInf(a) \/ IsInf(b) THEN Norm(Sign(a) * Sign(b), 0)
    ELSE Norm(a[1] * b[1], a[2] * b[2])
Div(a, b) ==
    IF IsNaN(a) \/ IsNaN(b) THEN NaN
    ELSE IF IsInf(a) /\ IsInf(b) THEN NaN
    ELSE IF IsInf(a) THEN Norm(Sign(a) * (IF Sign(b) < 0 THEN -1 ELSE 1), 0)
    ELSE IF IsInf(b) THEN R(0)
    ELSE Norm(a[1] * b[2], a[2] * b[1])
MathAbs(a) == IF IsNaN(a) THEN NaN ELSE <<Abs(a[1]), a[2]>>
MathMin(a, b) == IF IsNaN(a) \/ IsNaN(b) THEN NaN ELSE IF Lt(b, a) THEN b ELSE a
MathMax(a, b) == IF IsNaN(a) \/ IsNaN(b) THEN NaN ELSE IF Lt(a, b) THEN b ELSE a

-----------------------------------------------------------------------------
(* Errors *)

ErrNone == ""
ErrNoParts == "Multipart polylines requires at least 1 part."
ErrMeasureNotFound == "Measure value not found in the supplied polyline."
ErrNotContained == "Measure value not contained in the supplied lineSegment."
ErrNoMValues == "getLengthOfLine: Polyline does not contain M values"
\* reading a property of undefined
ErrTypeError == "TypeError"

-----------------------------------------------------------------------------
(* Vertices, points, segments *)

\* element i (0-based) of a coordinate array; undefined beyond its length
At(coordinates, i) ==
    IF i >= 0 /\ i < Len(coordinates) THEN coordinates[i + 1] ELSE Undefined

\* coordinates[i] = value (an assignment at index length appends)
SetAt(coordinates, i, value) ==
    IF i < Len(coordinates) THEN [coordinates EXCEPT ![i + 1] = value]
    ELSE Append(coordinates, value)

\* `undefined` where a Point is expected
NullPoint == [x |-> Undefined, y |-> Undefined, z |-> Undefined, m |-> Undefined]
NullSegment == [startPoint |-> NullPoint, endPoint |-> NullPoint]

\* Return the total number of vertices in a multipart polyline.
RECURSIVE SumLen(_, _)
SumLen(paths, i) ==
    IF i > Len(paths) THEN 0 ELSE Len(paths[i]) + SumLen(paths, i + 1)
getNumberOfVertex(geometry) == SumLen(geometry.paths, 1)

\* Return the path and index that match the vertexIndex.
RECURSIVE PathIndexLoop(_, _, _, _)
PathIndexLoop(i, cumulative, vertexIndex, geometry) ==
    IF i >= Len(geometry.paths)
    THEN [pathIndex |-> 0, vertexIndex |-> vertexIndex]
    ELSE LET c == cumulative + Len(geometry.paths[i + 1])
         IN  IF c > vertexIndex
             THEN [pathIndex |-> i,
                   vertexIndex |-> vertexIndex - c + Len(geometry.paths[i + 1])]
             ELSE PathIndexLoop(i + 1, c, vertexIndex, geometry)
\* getPathIndexForVertexIndex that takes every index as one of the first path
getPathIndexInFirstPath(vertexIndex, geometry) ==
    [pathIndex |-> 0, vertexIndex |-> vertexIndex]

getPathIndexForVertexIndex(vertexIndex, geometry) ==
    PathIndexLoop(0, 0, vertexIndex, geometry)

\* the vertex a PathAndVertexInfo addresses, decoded by the length of its array
PointOfVertexInfo(pathVertexInfo, geometry) ==
    LET path == geometry.paths[pathVertexInfo.pathIndex + 1]
        k == pathVertexInfo.vertexIndex
    IN  IF k < 0 \/ k >= Len(path)
        THEN [err |-> ErrTypeError, val |-> NullPoint]
        ELSE LET vertex == path[k + 1]
                 vertexHasZ == Len(vertex) = 4
             IN  [err |-> ErrNone,
                  val |-> [x |-> At(vertex, 0),
                           y |-> At(vertex, 1),
                           m |-> IF vertexHasZ THEN At(vertex, 3) ELSE At(vertex, 2),
                           z |-> IF vertexHasZ THEN At(vertex, 2) ELSE Undefined]]

\* Given a vertex index, get the point including m-value at that index
getPointAtVertex(vertexIndex, geometry) ==
    IF Len(geometry.paths) < 1
    THEN [err |-> ErrNoParts, val |-> NullPoint]
    ELSE PointOfVertexInfo(getPathIndexForVertexIndex(vertexIndex, geometry), geometry)

-----------------------------------------------------------------------------
(* Segment bracketing *)

\* the pair with the later point of the walk as startPoint
SegmentOfExchanged(lastPoint, currentPoint) ==
    [err |-> ErrNone, val |-> [startPoint |-> currentPoint, endPoint |-> lastPoint]]

\* return <LineSegment>{ startPoint: lastPoint, endPoint: currentPoint }
SegmentOf(lastPoint, currentPoint) ==
    [err |-> ErrNone, val |-> [startPoint |-> lastPoint, endPoint |-> currentPoint]]

\* after the reversed loop: lastPoint and currentPoint are read again
AfterReversedLoop(l, c) ==
    IF l.err # ErrNone THEN [err |-> l.err, val |-> NullSegment]
    ELSE IF c.err # ErrNone THEN [err |-> c.err, val |-> NullSegment]
    ELSE SegmentOf(l.val, c.val)

RECURSIVE WalkReversed(_, _, _, _)
\* the body of the reversed loop at index i
ReversedStep(i, lastPoint, currentPoint, measureValue, polyline) ==
    IF currentPoint.err # ErrNone
    THEN [err |-> currentPoint.err, val |-> NullSegment]
    ELSE IF Ge(currentPoint.val.m, measureValue)
    THEN SegmentOf(lastPoint, currentPoint.val)
    ELSE WalkReversed(i - 1, currentPoint.val, measureValue, polyline)

\* for (let i = numberOfVertices - 2; i >= 0; i--)
WalkReversed(i, lastPoint, measureValue, polyline) ==
    IF i < 0
    THEN AfterReversedLoop(
             getPointAtVertex(getNumberOfVertex(polyline) - 1, polyline),
             getPointAtVertex(getNumberOfVertex(polyline) - 2, polyline))
    ELSE ReversedStep(i, lastPoint, getPointAtVertex(i, polyline),
                      measureValue, polyline)

RECURSIVE WalkForward(_, _, _, _, _)
\* the body of the forward loop at index i
ForwardStep(i, lastPoint, p, measureValue, polyline) ==
    IF p.err # ErrNone THEN [err |-> p.err, val |-> NullSegment]
    ELSE IF Ge(p.val.m, measureValue) THEN SegmentOf(lastPoint, p.val)
    ELSE WalkForward(i + 1, p.val, p.val, measureValue, polyline)

\* for (let i = 1; i < numberOfVertices; i++); currentPoint is still undefined
\* when the body never ran
WalkForward(i, lastPoint, currentPoint, measureValue, polyline) ==
    IF i >= getNumberOfVertex(polyline)
    THEN SegmentOf(lastPoint, currentPoint)
    ELSE ForwardStep(i, lastPoint, getPointAtVertex(i, polyline),
                     measureValue, polyline)

\* FindFromLast that walks backwards without comparing the last point
FindFromLastUnchecked(last, measureValue, polyline) ==
    IF last.err # ErrNone THEN [err |-> last.err, val |-> NullSegment]
    ELSE WalkReversed(getNumberOfVertex(polyline) - 2, last.val,
                      measureValue, polyline)

\* the first point exceeds the measure: look from the last point
FindFromLast(last, measureValue, polyline) ==
    IF last.err # ErrNone THEN [err |-> last.err, val |-> NullSegment]
    ELSE IF Gt(last.val.m, measureValue)
    THEN [err |-> ErrMeasureNotFound, val |-> NullSegment]
    ELSE WalkReversed(getNumberOfVertex(polyline) - 2, last.val,
                      measureValue, polyline)

FindFromFirst(first, measureValue, polyline) ==
    IF first.err # ErrNone THEN [err |-> first.err, val |-> NullSegment]
    ELSE IF Gt(first.val.m, measureValue)
    THEN FindFromLast(getPointAtVertex(getNumberOfVertex(polyline) - 1, polyline),
                      measureValue, polyline)
    ELSE WalkForward(1, first.val, NullPoint, measureValue, polyline)

\* Find the segment of the esri polyline that contains the given measure value.
findLineSegmentThatContainsMeasure(measureValue, polyline) ==
    FindFromFirst(getPointAtVertex(0, polyline), measureValue, polyline)

-----------------------------------------------------------------------------
(* Point at a measure *)

\* new Point({x, y, z}): no measure
NewPoint(x, y, z) == [x |-> x, y |-> y, z |-> z, m |-> Undefined]

\* Interpolate that takes the elevation of the end point
InterpolateEndZ(startPoint, endPoint, measurePercent) ==
    NewPoint(Add(Mul(Sub(endPoint.x, startPoint.x), measurePercent), startPoint.x),
             Add(Mul(Sub(endPoint.y, startPoint.y), measurePercent), startPoint.y),
             endPoint.z)

\* the interpolating branch of createPointAtTargetMeasure
Interpolate(startPoint, endPoint, measurePercent) ==
    NewPoint(Add(Mul(Sub(endPoint.x, startPoint.x), measurePercent), startPoint.x),
             Add(Mul(Sub(endPoint.y, startPoint.y), measurePercent), startPoint.y),
             startPoint.z)

\* Given a measure value and a line segment that contains the measure value,
\* get the coordinate.
createPointAtTargetMeasure(targetMeasure, lineSegment) ==
    LET startPoint == lineSegment.startPoint
        endPoint == lineSegment.endPoint
    IN  IF startPoint = NullPoint THEN [err |-> ErrTypeError, val |-> NullPoint]
        ELSE IF Lt(targetMeasure, startPoint.m)
        THEN [err |-> ErrNotContained, val |-> NullPoint]
        ELSE IF endPoint = NullPoint THEN [err |-> ErrTypeError, val |-> NullPoint]
        ELSE IF Gt(targetMeasure, endPoint.m)
        THEN [err |-> ErrNotContained, val |-> NullPoint]
        ELSE IF SEq(startPoint.m, targetMeasure)
        THEN [err |-> ErrNone,
              val |-> NewPoint(startPoint.x, startPoint.y, startPoint.z)]
        ELSE IF SEq(endPoint.m, targetMeasure)
        THEN [err |-> ErrNone,
              val |-> NewPoint(endPoint.x, endPoint.y, startPoint.z)]
        ELSE [err |-> ErrNone,
              val |-> Interpolate(startPoint, endPoint,
                          Div(Sub(targetMeasure, startPoint.m),
                              Sub(endPoint.m, startPoint.m)))]

\* Restricts a value to be within a specified range.
\* clamp that returns the value as given
clampAsGiven(value, min, max) == value

clamp(value, min, max) ==
    IF Lt(value, min) THEN min ELSE IF Gt(value, max) THEN max ELSE value

\* Math.abs(endPoint.m - startPoint.m), once both points have been read
LengthBetween(startPoint, endPoint) ==
    IF startPoint.err # ErrNone THEN [err |-> startPoint.err, val |-> NaN]
    ELSE IF endPoint.err # ErrNone THEN [err |-> endPoint.err, val |-> NaN]
    ELSE IF startPoint.val.m = Undefined \/ endPoint.val.m = Undefined
    THEN [err |-> ErrNoMValues, val |-> NaN]
    ELSE [err |-> ErrNone, val |-> MathAbs(Sub(endPoint.val.m, startPoint.val.m))]

\* Use the m-values of the polyline to determine the length.
getLengthOfLineUsingMValue(geometry) ==
    IF Len(geometry.paths) < 1 THEN [err |-> ErrNoParts, val |-> NaN]
    ELSE LengthBetween(
             getPointAtVertex(0, geometry),
             getPointAtVertex(Len(geometry.paths[Len(geometry.paths)]) - 1, geometry))

NullStationInfo == [measure |-> NaN, pointJSON |-> NullPoint]

\* lineLength * percent + startMeasure, from the station attributes
AttributeTarget(station, startStation, endStation, lineLength, p0, pn) ==
    IF lineLength.err # ErrNone THEN [err |-> lineLength.err, val |-> NaN]
    ELSE IF p0.err # ErrNone THEN [err |-> p0.err, val |-> NaN]
    ELSE IF pn.err # ErrNone THEN [err |-> pn.err, val |-> NaN]
    ELSE [err |-> ErrNone,
          val |-> Add(Mul(lineLength.val,
                          Div(Sub(station, startStation),
                              MathAbs(Sub(endStation, startStation)))),
                      MathMin(p0.val.m, pn.val.m))]

\* the targetMeasure of getStationInfoFromSegment before it is clamped
TargetMeasure(station, segment, cfg) ==
    IF ~cfg.calculateStationUsingAttributes
    THEN [err |-> ErrNone, val |-> station]
    ELSE AttributeTarget(
             station,
             MathMin(segment.attributes.beginStation, segment.attributes.endStation),
             MathMax(segment.attributes.beginStation, segment.attributes.endStation),
             getLengthOfLineUsingMValue(segment.geometry),
             getPointAtVertex(0, segment.geometry),
             getPointAtVertex(getNumberOfVertex(segment.geometry) - 1,
                              segment.geometry))

StationInfoOf(targetMeasure, targetPoint) ==
    IF targetPoint.err # ErrNone
    THEN [err |-> targetPoint.err, val |-> NullStationInfo]
    ELSE [err |-> ErrNone,
          val |-> [measure |-> targetMeasure, pointJSON |-> targetPoint.val]]

\* createPointAtTargetMeasure at the clamped measure
StationInfoAt(targetMeasure, lineSegment) ==
    StationInfoOf(targetMeasure, createPointAtTargetMeasure(targetMeasure, lineSegment))

\* ensure the target measure is on the line
StationInfoOn(target, lineSegment) ==
    IF lineSegment.err # ErrNone
    THEN [err |-> lineSegment.err, val |-> NullStationInfo]
    ELSE IF lineSegment.val.endPoint = NullPoint
    THEN [err |-> ErrTypeError, val |-> NullStationInfo]
    ELSE StationInfoAt(
             clamp(target,
                   MathMin(lineSegment.val.startPoint.m, lineSegment.val.endPoint.m),
                   MathMax(lineSegment.val.startPoint.m, lineSegment.val.endPoint.m)),
             lineSegment.val)

\* Need to find the coordinate of the target measure
StationInfoFor(target, geometry) ==
    IF target.err # ErrNone THEN [err |-> target.err, val |-> NullStationInfo]
    ELSE StationInfoOn(target.val,
                       findLineSegmentThatContainsMeasure(target.val, geometry))

\* Extract StationInfo from a graphic.
getStationInfoFromSegment(station, segment, cfg) ==
    StationInfoFor(TargetMeasure(station, segment, cfg), segment.geometry)

-----------------------------------------------------------------------------
(* Range trimming *)

\* path.splice(from, count) for 0-based from: the path without those elements
Splice(path, from, count) ==
    SubSeq(path, 1, from) \o SubSeq(path, from + count + 1, Len(path))

\* the coordinate lies on the side removeSegmentsForwards cuts away
BeyondForwards(coordinates, mPosition, reversedMeasures, measureStart) ==
    \/ ~reversedMeasures /\ Lt(At(coordinates, mPosition), measureStart)
    \/ reversedMeasures /\ Gt(At(coordinates, mPosition), measureStart)

\* the coordinate lies on the side removeSegmentsBackwards cuts away
BeyondBackwards(coordinates, mPosition, reversedMeasures, measureEnd) ==
    \/ ~reversedMeasures /\ Gt(At(coordinates, mPosition), measureEnd)
    \/ reversedMeasures /\ Lt(At(coordinates, mPosition), measureEnd)

\* Adjust that overwrites the measure and leaves x and y in place
AdjustMeasureOnly(coordinates, mPosition, stationPoint) ==
    SetAt(coordinates, mPosition, stationPoint.measure)

\* coordinates[0] = x; coordinates[1] = y; coordinates[mPosition] = measure
Adjust(coordinates, mPosition, stationPoint) ==
    SetAt(SetAt(SetAt(coordinates, 0, stationPoint.pointJSON.x),
                1, stationPoint.pointJSON.y),
          mPosition, stationPoint.measure)

\* the k-loop of removeSegmentsForwards over one path
RECURSIVE ForwardsLoop(_, _, _, _, _, _)
ForwardsLoop(k, path, itemsToRemove, mPosition, reversedMeasures, stationPoint) ==
    IF k >= Len(path) - 1 THEN [path |-> path, itemsToRemove |-> itemsToRemove]
    ELSE LET coordinates == path[k + 1]
             nextCoordinates == path[k + 2]
             measureStart == stationPoint.measure
         IN  IF BeyondForwards(coordinates, mPosition, reversedMeasures, measureStart)
             THEN IF BeyondForwards(nextCoordinates, mPosition, reversedMeasures,
                                    measureStart)
                  THEN ForwardsLoop(k + 1, path, itemsToRemove + 1, mPosition,
                                    reversedMeasures, stationPoint)
                  ELSE IF SEq(At(nextCoordinates, mPosition), measureStart)
                  THEN [path |-> path, itemsToRemove |-> itemsToRemove + 1]
                  ELSE [path |-> [path EXCEPT ![k + 1] =
                                      Adjust(coordinates, mPosition, stationPoint)],
                        itemsToRemove |-> itemsToRemove]
             ELSE [path |-> path, itemsToRemove |-> itemsToRemove]

\* ItemsToRemove without the single-point rule
ItemsToRemoveAsCounted(path, r) == r.itemsToRemove

\* after the loop: a path left with one point is removed whole
ItemsToRemove(path, r) ==
    IF r.itemsToRemove = Len(path) - 1 THEN r.itemsToRemove + 1 ELSE r.itemsToRemove

\* path.splice(0, itemsToRemove)
SpliceHead(path, itemsToRemove) ==
    IF itemsToRemove # 0 THEN Splice(path, 0, itemsToRemove) ELSE path

ForwardsSplice(path, r) == SpliceHead(r.path, ItemsToRemove(path, r))

\* one path of removeSegmentsForwards: the loop, then the splice
ForwardsPath(path, mPosition, reversedMeasures, stationPoint) ==
    ForwardsSplice(path,
        ForwardsLoop(0, path, 0, mPosition, reversedMeasures, stationPoint))

\* the attribute update at the end of each path iteration of removeSegmentsForwards
ForwardsAttributes(attributes, start, cfg) ==
    IF cfg.calculateStationUsingAttributes
    THEN IF Le(attributes.beginStation, attributes.endStation)
         THEN [attributes EXCEPT !.beginStation = start]
         ELSE [attributes EXCEPT !.endStation = start]
    ELSE attributes

\* the k-loop of removeSegmentsBackwards over one path
RECURSIVE BackwardsLoop(_, _, _, _, _, _)
BackwardsLoop(k, path, itemsToRemove, mPosition, reversedMeasures, stationPoint) ==
    IF k <= 0 THEN [path |-> path, itemsToRemove |-> itemsToRemove]
    ELSE LET coordinates == path[k + 1]
             previousCoordinates == path[k]
             measureEnd == stationPoint.measure
         IN  IF BeyondBackwards(coordinates, mPosition, reversedMeasures, measureEnd)
             THEN IF BeyondBackwards(previousCoordinates, mPosition, reversedMeasures,
                                     measureEnd)
                  THEN BackwardsLoop(k - 1, path, itemsToRemove + 1, mPosition,
                                     reversedMeasures, stationPoint)
                  ELSE IF SEq(At(previousCoordinates, mPosition), measureEnd)
                  THEN [path |-> path, itemsToRemove |-> itemsToRemove + 1]
                  ELSE [path |-> [path EXCEPT ![k + 1] =
                                      Adjust(coordinates, mPosition, stationPoint)],
                        itemsToRemove |-> itemsToRemove]
             ELSE [path |-> path, itemsToRemove |-> itemsToRemove]

\* path.splice(path.length - itemsToRemove, itemsToRemove)
SpliceTail(path, itemsToRemove) ==
    IF itemsToRemove # 0
    THEN Splice(path, Len(path) - itemsToRemove, itemsToRemove)
    ELSE path

BackwardsSplice(path, r) == SpliceTail(r.path, ItemsToRemove(path, r))

\* one path of removeSegmentsBackwards: the loop, then the splice
BackwardsPath(path, mPosition, reversedMeasures, stationPoint) ==
    BackwardsSplice(path,
        BackwardsLoop(Len(path) - 1, path, 0, mPosition, reversedMeasures,
                      stationPoint))

\* the attribute update at the end of each path iteration of removeSegmentsBackwards
BackwardsAttributes(attributes, end, cfg) ==
    IF cfg.calculateStationUsingAttributes
    THEN IF Le(attributes.beginStation, attributes.endStation)
         THEN [attributes EXCEPT !.endStation = end]
         ELSE [attributes EXCEPT !.beginStation = end]
    ELSE attributes

\* the j-loop over the paths of the feature, forwards (TRUE) or backwards
RECURSIVE PathsLoop(_, _, _, _, _, _, _, _)
PathsLoop(j, feature, forwards, bound, mPosition, reversedMeasures, stationPoint, cfg) ==
    IF j > Len(feature.geometry.paths) THEN feature
    ELSE LET path == feature.geometry.paths[j]
             newPath == IF forwards
                        THEN ForwardsPath(path, mPosition, reversedMeasures, stationPoint)
                        ELSE BackwardsPath(path, mPosition, reversedMeasures, stationPoint)
             newAttributes == IF forwards
                              THEN ForwardsAttributes(feature.attributes, bound, cfg)
                              ELSE BackwardsAttributes(feature.attributes, bound, cfg)
         IN  PathsLoop(j + 1,
                       [feature EXCEPT !.geometry.paths[j] = newPath,
                                       !.attributes = newAttributes],
                       forwards, bound, mPosition, reversedMeasures, stationPoint, cfg)

\* the path loop, unless resolving the station threw
RemoveSegments(feature, forwards, bound, mPosition, reversedMeasures, stationPoint, cfg) ==
    IF stationPoint.err # ErrNone THEN [err |-> stationPoint.err, val |-> feature]
    ELSE [err |-> ErrNone,
          val |-> PathsLoop(1, feature, forwards, bound, mPosition, reversedMeasures,
                            stationPoint.val, cfg)]

\* removeSegmentsForwards(point): start is the normalized range start it closes over
removeSegmentsForwards(feature, point, start, mPosition, reversedMeasures, cfg) ==
    RemoveSegments(feature, TRUE, start, mPosition, reversedMeasures,
                   getStationInfoFromSegment(point, feature, cfg), cfg)

\* removeSegmentsBackwards(point): end is the normalized range end it closes over
removeSegmentsBackwards(feature, point, end, mPosition, reversedMeasures, cfg) ==
    RemoveSegments(feature, FALSE, end, mPosition, reversedMeasures,
                   getStationInfoFromSegment(point, feature, cfg), cfg)

\* the final loop of an iteration: remove the empty paths
RECURSIVE RemoveEmptyPaths(_)
RemoveEmptyPaths(paths) ==
    IF paths = <<>> THEN <<>>
    ELSE IF Len(Head(paths)) = 0 THEN RemoveEmptyPaths(Tail(paths))
    ELSE <<Head(paths)>> \o RemoveEmptyPaths(Tail(paths))

\* startOfFullRoute and endOfFullRoute from the first and the last vertex
MeasureExtent(s, e) ==
    [err |-> IF s.err # ErrNone THEN s.err ELSE e.err,
     startOfFullRoute |-> s.val.m,
     endOfFullRoute |-> e.val.m]

\* the extent of the feature, before normalization
FullRoute(feature, cfg) ==
    IF cfg.calculateStationUsingAttributes
    THEN [err |-> ErrNone,
          startOfFullRoute |-> feature.attributes.beginStation,
          endOfFullRoute |-> feature.attributes.endStation]
    ELSE MeasureExtent(
             getPointAtVertex(0, feature.geometry),
             getPointAtVertex(getNumberOfVertex(feature.geometry) - 1,
                              feature.geometry))

\* The start should be the smallest and the end should be the largest point.
ReversedMeasures(raw) == Gt(raw.startOfFullRoute, raw.endOfFullRoute)
StartOfFullRoute(raw) ==
    IF ReversedMeasures(raw) THEN raw.endOfFullRoute ELSE raw.startOfFullRoute
EndOfFullRoute(raw) ==
    IF ReversedMeasures(raw) THEN raw.startOfFullRoute ELSE raw.endOfFullRoute

\* IsOutside that also drops a feature that touches the range at an endpoint
IsOutsideInclusive(raw, start, end) ==
    \/ Le(StartOfFullRoute(raw), start) /\ Le(EndOfFullRoute(raw), start)
    \/ Ge(StartOfFullRoute(raw), end) /\ Ge(EndOfFullRoute(raw), end)

\* the feature lies completely outside the range
IsOutside(raw, start, end) ==
    \/ Lt(StartOfFullRoute(raw), start) /\ Lt(EndOfFullRoute(raw), start)
    \/ Gt(StartOfFullRoute(raw), end) /\ Gt(EndOfFullRoute(raw), end)

\* the end of an iteration, unless the second cut threw
AfterSecondCut(second) ==
    IF second.err # ErrNone
    THEN [err |-> second.err, dropped |-> FALSE, feature |-> second.val]
    ELSE [err |-> ErrNone, dropped |-> FALSE,
          feature |-> [second.val EXCEPT !.geometry.paths =
                           RemoveEmptyPaths(second.val.geometry.paths)]]

\* if (endOfFullRoute > end), unless the first cut threw
AfterFirstCut(first, raw, start, end, mPosition, cfg) ==
    IF first.err # ErrNone
    THEN [err |-> first.err, dropped |-> FALSE, feature |-> first.val]
    ELSE AfterSecondCut(
             IF Gt(EndOfFullRoute(raw), end)
             THEN IF ReversedMeasures(raw)
                  THEN removeSegmentsForwards(first.val, end, start, mPosition,
                                              TRUE, cfg)
                  ELSE removeSegmentsBackwards(first.val, end, end, mPosition,
                                               FALSE, cfg)
             ELSE first)

\* one iteration of the feature loop, the extent known:
\* [err, dropped, feature]; on a throw, feature is as the throw leaves it
TrimFeatureWithin(feature, raw, start, end, mPosition, cfg) ==
    IF raw.err # ErrNone
    THEN [err |-> raw.err, dropped |-> FALSE, feature |-> feature]
    ELSE IF IsOutside(raw, start, end)
    THEN [err |-> ErrNone, dropped |-> TRUE, feature |-> feature]
    ELSE AfterFirstCut(
             IF Lt(StartOfFullRoute(raw), start)
             THEN IF ReversedMeasures(raw)
                  THEN removeSegmentsBackwards(feature, start, end, mPosition,
                                               TRUE, cfg)
                  ELSE removeSegmentsForwards(feature, start, start, mPosition,
                                              FALSE, cfg)
             ELSE [err |-> ErrNone, val |-> feature],
             raw, start, end, mPosition, cfg)

\* one iteration of the feature loop of trimFeatureSetToRange
TrimFeature(feature, start, end, mPosition, cfg) ==
    TrimFeatureWithin(feature, FullRoute(feature, cfg), start, end, mPosition, cfg)

RECURSIVE FeatureLoop(_, _, _, _, _, _)
\* after iteration i: stop on a throw, splice a dropped feature out, go on
FeatureStep(i, features, r, start, end, mPosition, cfg) ==
    IF r.err # ErrNone
    THEN [err |-> r.err, features |-> [features EXCEPT ![i] = r.feature]]
    ELSE IF r.dropped
    THEN FeatureLoop(i - 1, Splice(features, i - 1, 1), start, end, mPosition, cfg)
    ELSE FeatureLoop(i - 1, [features EXCEPT ![i] = r.feature], start, end,
                     mPosition, cfg)

\* the feature loop, from the last feature to the first
FeatureLoop(i, features, start, end, mPosition, cfg) ==
    IF i < 1 THEN [err |-> ErrNone, features |-> features]
    ELSE FeatureStep(i, features,
                     TrimFeature(features[i], start, end, mPosition, cfg),
                     start, end, mPosition, cfg)

\* NormalizedStart without the exchange
NormalizedStartAsGiven(start, end) == start

\* The start value should always be the smallest.
NormalizedStart(start, end) == IF Gt(start, end) THEN end ELSE start
NormalizedEnd(start, end) == IF Gt(start, end) THEN start ELSE end

\* The position of the M value in a coordinate array
MPosition(fs) == IF fs.hasZ THEN 3 ELSE 2

TrimResult(fs, r) == [err |-> r.err, featureSet |-> [fs EXCEPT !.features = r.features]]

\* a featureSet argument that is null or undefined
MissingFeatureSet == [missing |-> TRUE]

\* !featureSet || featureSet.features.length === 0: the test without the hasM flag
IsNothingToTrimWithoutFlag(fs) ==
    IF fs = MissingFeatureSet THEN TRUE ELSE Len(fs.features) = 0

\* !featureSet || featureSet.features.length === 0 || !featureSet.hasM
IsNothingToTrim(fs) ==
    IF fs = MissingFeatureSet THEN TRUE
    ELSE Len(fs.features) = 0 \/ ~fs.hasM

\* Trim the provided featureSet to the selected range: [err, featureSet]
trimFeatureSetToRange(fs, start, end, cfg) ==
    IF IsNothingToTrim(fs) THEN [err |-> ErrNone, featureSet |-> fs]
    ELSE TrimResult(fs,
             FeatureLoop(Len(fs.features), fs.features,
                         NormalizedStart(start, end), NormalizedEnd(start, end),
                         MPosition(fs), cfg))

-----------------------------------------------------------------------------
(* The checked input space *)

Measures == 0 .. MaxM
HalfSteps == { Frac(k, 2) : k \in 0 .. (2 * MaxM) }

RECURSIVE SortAsc(_)
SortAsc(S) ==
    IF S = {} THEN <<>>
    ELSE LET lo == CHOOSE x \in S : \A y \in S : x <= y
         IN  <<lo>> \o SortAsc(S \ {lo})
Reverse(s) == [i \in 1 .. Len(s) |-> s[Len(s) + 1 - i]]

\* measures along a route: strictly increasing or strictly decreasing with vertex order
MeasureSeqs ==
    UNION { {SortAsc(S), Reverse(SortAsc(S))} : S \in (SUBSET Measures) \ {{}} }

\* the route as a curve: where the vertex with measure m lies
Shapes == {"bend", "vertical"}
XOf(shape, m) == IF shape = "bend" THEN 4 * m ELSE 3
YOf(shape, m) == IF shape = "bend" THEN m * m ELSE 2 * m
ZOf(m) == 5 + m

\* the coordinate array of a vertex: [x, y, m] or [x, y, z, m]
Vertex(shape, hasZ, m) ==
    IF hasZ
    THEN <<R(XOf(shape, m)), R(YOf(shape, m)), R(ZOf(m)), R(m)>>
    ELSE <<R(XOf(shape, m)), R(YOf(shape, m)), R(m)>>

\* the vertex chain cut into paths after the positions in cuts
PathsOf(chain, cuts) ==
    LET ends == SortAsc(cuts \cup {Len(chain)})
    IN  [j \in 1 .. Len(ends) |->
            SubSeq(chain, IF j = 1 THEN 1 ELSE ends[j - 1] + 1, ends[j])]

\* how the station attributes of a stored segment relate to its measures
Profiles == {"same", "offset", "double", "flipped"}
StationOf(profile, m) ==
    IF profile = "offset" THEN R(m + 1)
    ELSE IF profile = "double" THEN R(2 * m)
    ELSE R(m)

MeasureOf(coordinates) == coordinates[Len(coordinates)]

Feature(id, paths, profile) ==
    LET firstM == MeasureOf(paths[1][1])[1]
        lastPath == paths[Len(paths)]
        lastM == MeasureOf(lastPath[Len(lastPath)])[1]
    IN  [id |-> id,
         geometry |-> [paths |-> paths],
         attributes |->
             IF profile = "flipped"
             THEN [beginStation |-> StationOf(profile, lastM),
                   endStation |-> StationOf(profile, firstM)]
             ELSE [beginStation |-> StationOf(profile, firstM),
                   endStation |-> StationOf(profile, lastM)]]

\* a route stored as one multipart feature, or as one feature per path
Groupings == {"multipart", "records"}
FeatureSetOf(ms, cuts, shape, hasZ, profile, grouping) ==
    LET chain == [i \in 1 .. Len(ms) |-> Vertex(shape, hasZ, ms[i])]
        paths == PathsOf(chain, cuts)
    IN  [hasM |-> TRUE,
         hasZ |-> hasZ,
         features |->
             IF grouping = "multipart" THEN <<Feature(1, paths, profile)>>
             ELSE [j \in 1 .. Len(paths) |-> Feature(j, <<paths[j]>>, profile)]]

NoCall == [done |-> FALSE, start |-> NaN, end |-> NaN, err |-> ErrNone]
NoRet == [op |-> "none", measure |-> NaN, polyline |-> [paths |-> <<>>],
          segment |-> NullSegment, err |-> ErrNone,
          outSegment |-> NullSegment, outPoint |-> NullPoint]

Init ==
    \E ms \in MeasureSeqs, shape \in Shapes, hasZ \in BOOLEAN,
       profile \in Profiles, grouping \in Groupings, calc \in BOOLEAN :
        \E cuts \in SUBSET (1 .. Len(ms) - 1) :
            /\ featureSet = FeatureSetOf(ms, cuts, shape, hasZ, profile, grouping)
            /\ featureSetCopy = featureSet
            /\ config = [calculateStationUsingAttributes |-> calc]
            /\ pc = "ready"
            /\ call = NoCall
            /\ before = featureSet
            /\ copyCall = NoCall
            /\ ret = NoRet

-----------------------------------------------------------------------------
(* Calls *)

\* trimFeatureSetToRange(featureSet, start, end, config)
TrimOutcome(start, end, r) ==
    /\ featureSet' = r.featureSet
    /\ pc' = IF r.err = ErrNone THEN "returned" ELSE "threw"
    /\ call' = [done |-> TRUE, start |-> start, end |-> end, err |-> r.err]
    /\ before' = featureSet

CallTrim ==
    /\ pc = "ready"
    /\ \E start \in HalfSteps, end \in HalfSteps :
        TrimOutcome(start, end, trimFeatureSetToRange(featureSet, start, end, config))
    /\ UNCHANGED <<featureSetCopy, config, copyCall, ret>>

TrimCopyOutcome(r) ==
    /\ featureSetCopy' = r.featureSet
    /\ copyCall' = [done |-> TRUE, start |-> call.end, end |-> call.start,
                    err |-> r.err]

\* the same call on the equal copy, with the two range arguments exchanged
CallTrimExchanged ==
    /\ pc # "ready"
    /\ ~copyCall.done
    /\ TrimCopyOutcome(
           trimFeatureSetToRange(featureSetCopy, call.end, call.start, config))
    /\ UNCHANGED <<featureSet, config, pc, call, before, ret>>

Next == CallTrim \/ CallTrimExchanged

Spec == Init /\ [][Next]_vars

-----------------------------------------------------------------------------
(* The call repeated on its own result *)

TrimAgainOutcome(r) ==
    /\ featureSetCopy' = r.featureSet
    /\ copyCall' = [done |-> TRUE, start |-> call.start, end |-> call.end,
                    err |-> r.err]

\* trimFeatureSetToRange(featureSet, start, end, config) a second time, on the
\* feature set the first call left; featureSetCopy takes what it leaves
CallTrimAgain ==
    /\ pc = "returned"
    /\ TrimAgainOutcome(
           trimFeatureSetToRange(featureSet, call.start, call.end, config))
    /\ pc' = "repeated"
    /\ UNCHANGED <<featureSet, config, call, before, ret>>

NextTwice == CallTrim \/ CallTrimAgain

SpecTwice == Init /\ [][NextTwice]_vars

-----------------------------------------------------------------------------
(* Calls on any feature set the caller can hand over *)

\* the flags of the feature set are the caller's: hasM set or not, hasZ set or
\* not whatever the coordinate arrays hold; the set may have no feature or be missing
InitGiven ==
    \E ms \in MeasureSeqs, shape \in Shapes, hasZ \in BOOLEAN,
       grouping \in Groupings, calc \in BOOLEAN,
       flagM \in BOOLEAN, flagZ \in BOOLEAN, given \in {"features", "empty", "missing"} :
        \E cuts \in SUBSET (1 .. Len(ms) - 1) :
            /\ featureSet =
                   IF given = "missing" THEN MissingFeatureSet
                   ELSE IF given = "empty"
                   THEN [hasM |-> flagM, hasZ |-> flagZ, features |-> <<>>]
                   ELSE [FeatureSetOf(ms, cuts, shape, hasZ, "same", grouping)
                             EXCEPT !.hasM = flagM, !.hasZ = flagZ]
            /\ featureSetCopy = featureSet
            /\ config = [calculateStationUsingAttributes |-> calc]
            /\ pc = "ready"
            /\ call = NoCall
            /\ before = featureSet
            /\ copyCall = NoCall
            /\ ret = NoRet

NextGiven == CallTrim

SpecGiven == InitGiven /\ [][NextGiven]_vars

-----------------------------------------------------------------------------
(* Calls of the exported pure functions *)

\* the points of a polyline, by global vertex index
PointsOf(geometry) ==
    { getPointAtVertex(i, geometry).val : i \in 0 .. getNumberOfVertex(geometry) - 1 }

FindOutcome(measureValue, polyline, r) ==
    ret' = [NoRet EXCEPT !.op = "find", !.measure = measureValue,
                         !.polyline = polyline, !.err = r.err, !.outSegment = r.val]

PointOutcome(targetMeasure, lineSegment, r) ==
    ret' = [NoRet EXCEPT !.op = "point", !.measure = targetMeasure,
                         !.segment = lineSegment, !.err = r.err, !.outPoint = r.val]

\* findLineSegmentThatContainsMeasure(measureValue, polyline)
CallFindLineSegment ==
    /\ \E f \in 1 .. Len(featureSet.features), measureValue \in HalfSteps :
        FindOutcome(measureValue, featureSet.features[f].geometry,
            findLineSegmentThatContainsMeasure(measureValue,
                                               featureSet.features[f].geometry))
    /\ UNCHANGED <<featureSet, featureSetCopy, config, pc, call, before, copyCall>>

\* createPointAtTargetMeasure(targetMeasure, lineSegment), the segment any two
\* points of a polyline in either order
CallCreatePoint ==
    /\ \E f \in 1 .. Len(featureSet.features), targetMeasure \in HalfSteps :
        \E s \in PointsOf(featureSet.features[f].geometry),
           e \in PointsOf(featureSet.features[f].geometry) :
            PointOutcome(targetMeasure, [startPoint |-> s, endPoint |-> e],
                createPointAtTargetMeasure(targetMeasure,
                                           [startPoint |-> s, endPoint |-> e]))
    /\ UNCHANGED <<featureSet, featureSetCopy, config, pc, call, before, copyCall>>

InitSegment ==
    \E ms \in MeasureSeqs, shape \in Shapes, hasZ \in BOOLEAN :
        \E cuts \in SUBSET (1 .. Len(ms) - 1) :
            /\ featureSet = FeatureSetOf(ms, cuts, shape, hasZ, "same", "multipart")
            /\ featureSetCopy = featureSet
            /\ config = [calculateStationUsingAttributes |-> FALSE]
            /\ pc = "ready"
            /\ call = NoCall
            /\ before = featureSet
            /\ copyCall = NoCall
            /\ ret = NoRet

NextSegment == CallFindLineSegment \/ CallCreatePoint

SpecSegment == InitSegment /\ [][NextSegment]_vars

-----------------------------------------------------------------------------
(* Point to measure *)

\* a NearestPointResult of the geometry engine: coordinate and vertexIndex
NearestResult(point, vertexIndex) ==
    [coordinate |-> [x |-> point.x, y |-> point.y], vertexIndex |-> vertexIndex]

\* startPoint and endPoint of findAdjacentVertices, once both have been read
AdjacentOf(startVertex, endVertex) ==
    IF startVertex.err # ErrNone
    THEN [err |-> startVertex.err, val |-> NullSegment]
    ELSE IF endVertex.err # ErrNone
    THEN [err |-> endVertex.err, val |-> NullSegment]
    ELSE [err |-> ErrNone,
          val |-> [startPoint |-> startVertex.val, endPoint |-> endVertex.val]]

\* Find the vertices of the polyline that encapsulate the point of interest
findAdjacentVertices(containingFeatureJSON, vertexIndex) ==
    IF Len(containingFeatureJSON.geometry.paths) < 1
    THEN [err |-> ErrNoParts, val |-> NullSegment]
    ELSE AdjacentOf(
             getPointAtVertex(vertexIndex, containingFeatureJSON.geometry),
             PointOfVertexInfo(
                 getPathIndexForVertexIndex(vertexIndex + 1,
                                            containingFeatureJSON.geometry),
                 containingFeatureJSON.geometry))

\* segmentLength * measurePercent + containingSegment.startPoint.m, with the
\* measurePercent taken from the x coordinate
InterpolateMeasure(coordinate, containingSegment) ==
    Add(Mul(Sub(containingSegment.endPoint.m, containingSegment.startPoint.m),
            Div(Sub(coordinate.x, containingSegment.startPoint.x),
                Sub(containingSegment.endPoint.x, containingSegment.startPoint.x))),
        containingSegment.startPoint.m)

\* return stationPoint.m
MeasureOfStationPoint(stationPoint) ==
    [err |-> stationPoint.err, val |-> stationPoint.val.m]

\* the two branches of calculateMeasureFromPoint, after findAdjacentVertices
MeasureFrom(isVertex, nearestPoint, nearestVertex, containingSegment, geometry) ==
    IF containingSegment.err # ErrNone
    THEN [err |-> containingSegment.err, val |-> NaN]
    ELSE IF isVertex
    THEN MeasureOfStationPoint(getPointAtVertex(nearestVertex.vertexIndex, geometry))
    ELSE [err |-> ErrNone,
          val |-> InterpolateMeasure(nearestPoint.coordinate, containingSegment.val)]

\* calculateMeasureFromPoint(point, nearestSegmentFeature, spatialReference); the
\* answers of geometryEngine.nearestCoordinate and geometryEngine.nearestVertex for
\* the point stand in its place
calculateMeasureFromPoint(nearestPoint, nearestVertex, nearestSegmentFeature) ==
    MeasureFrom(/\ SEq(nearestPoint.coordinate.x, nearestVertex.coordinate.x)
                /\ SEq(nearestPoint.coordinate.y, nearestVertex.coordinate.y),
                nearestPoint, nearestVertex,
                findAdjacentVertices(nearestSegmentFeature, nearestPoint.vertexIndex),
                nearestSegmentFeature.geometry)

-----------------------------------------------------------------------------
(* Closest feature *)

ErrInvalidArgument == "Invalid argument. Feature count = 0"
ErrNearestNotFound == "Nearest feature was not found."

\* a graphic without geometry, and `null` where a graphic is expected
NullGeometry == [null |-> TRUE]
NullGraphic == [id |-> 0, geometry |-> NullGeometry, attributes |-> [null |-> TRUE]]

\* IsCloser that also takes a candidate at the same distance
IsCloserOrEqual(nearest, newPoint) ==
    nearest.graphic = NullGraphic \/ Ge(nearest.distance, newPoint.distance)

\* if (nearestPoint == null) ... else if (nearestPoint.distance > newPoint.distance)
IsCloser(nearest, newPoint) ==
    nearest.graphic = NullGraphic \/ Gt(nearest.distance, newPoint.distance)

\* one pass of the loop of findClosestFeature; projections[i] is the answer of
\* geometryEngine.nearestCoordinate for features[i]
ClosestStep(nearest, graphic, newPoint) ==
    IF graphic.geometry = NullGeometry THEN nearest
    ELSE IF ~newPoint.isEmpty /\ IsCloser(nearest, newPoint)
    THEN [graphic |-> graphic, distance |-> newPoint.distance,
          calls |-> nearest.calls + 1]
    ELSE [nearest EXCEPT !.calls = nearest.calls + 1]

RECURSIVE ClosestLoop(_, _, _, _)
ClosestLoop(i, features, projections, nearest) ==
    IF i > Len(features) THEN nearest
    ELSE ClosestLoop(i + 1, features, projections,
                     ClosestStep(nearest, features[i], projections[i]))

ClosestOf(nearest) ==
    [err |-> IF nearest.graphic = NullGraphic THEN ErrNearestNotFound ELSE ErrNone,
     val |-> nearest.graphic,
     calls |-> nearest.calls]

\* findClosestFeature that projects on a single candidate too
findClosestFeatureByProjection(features, projections) ==
    IF Len(features) = 0
    THEN [err |-> ErrInvalidArgument, val |-> NullGraphic, calls |-> 0]
    ELSE ClosestOf(ClosestLoop(1, features, projections,
                               [graphic |-> NullGraphic, distance |-> NaN,
                                calls |-> 0]))

\* findClosestFeature(features, point); calls counts the uses of nearestCoordinate
findClosestFeature(features, projections) ==
    IF Len(features) = 0
    THEN [err |-> ErrInvalidArgument, val |-> NullGraphic, calls |-> 0]
    ELSE IF Len(features) = 1
    THEN [err |-> ErrNone, val |-> features[1], calls |-> 0]
    ELSE ClosestOf(ClosestLoop(1, features, projections,
                               [graphic |-> NullGraphic, distance |-> NaN,
                                calls |-> 0]))

-----------------------------------------------------------------------------
(* Segments of a route *)

ErrTransferLimit == "Query transfer limit exceeded."
ErrNoSegments == "No segments found for route id"
ErrQueryFailed == "Query for segments failed: "

NoFeatureSet == [features |-> <<>>, exceededTransferLimit |-> FALSE]

\* queryForSegments, given the outcome of executeQueryJSON; queries counts the
\* uses of executeQueryJSON
queryForSegments(outcome) ==
    IF outcome.err # ErrNone
    THEN [err |-> outcome.err, val |-> NoFeatureSet, queries |-> 1]
    ELSE IF outcome.val.exceededTransferLimit
    THEN [err |-> ErrTransferLimit, val |-> NoFeatureSet, queries |-> 1]
    ELSE [err |-> ErrNone, val |-> outcome.val, queries |-> 1]

\* SegmentsOrThrow without the test for an empty result
SegmentsAsQueried(result) == result

\* the try block of getSegmentsForRoute
SegmentsOrThrow(result) ==
    IF result.err # ErrNone THEN result
    ELSE IF Len(result.val.features) = 0
    THEN [result EXCEPT !.err = ErrNoSegments, !.val = NoFeatureSet]
    ELSE result

\* catch (error) { throw new Error(`Query for segments failed: ${error.message}`) }
Rethrown(result) ==
    IF result.err = ErrNone
    THEN [err |-> ErrNone, cause |-> ErrNone, val |-> result.val,
          queries |-> result.queries]
    ELSE [err |-> ErrQueryFailed, cause |-> result.err, val |-> result.val,
          queries |-> result.queries]

\* getSegmentsForRoute(linearReferencingConfig, routeId, spatialReference); a
\* rejection carries the message prefix in err and error.message in cause
getSegmentsForRoute(outcome) == Rethrown(SegmentsOrThrow(queryForSegments(outcome)))

-----------------------------------------------------------------------------
(* M values from coordinates *)

\* an optional boolean input: undefined, true or false
Omitted == "omitted"
OptionalBooleans == {Omitted, "true", "false"}
\* input ?? false
OrFalse(input) == input = "true"

\* xValue and yValue of setMValueForFeature
PointOfFeature(feature, useGeometry) ==
    IF useGeometry
    THEN [x |-> feature.geometry.x, y |-> feature.geometry.y]
    ELSE [x |-> feature.attributes.xField, y |-> feature.attributes.yField]

\* if (measure == null) return null; feature.attributes[mValueFieldName] = measure
WithMValue(feature, point, measure) ==
    IF measure.err # ErrNone
    THEN [err |-> measure.err, val |-> NullGraphic, point |-> point]
    ELSE IF measure.val = Undefined
    THEN [err |-> ErrNone, val |-> NullGraphic, point |-> point]
    ELSE [err |-> ErrNone,
          val |-> [feature EXCEPT !.attributes.mValue = measure.val],
          point |-> point]

\* the measure of the point on the closest graphic
MeasureOnClosest(feature, point, closestGraphic, engine) ==
    IF closestGraphic.err # ErrNone
    THEN [err |-> closestGraphic.err, val |-> NullGraphic, point |-> point]
    ELSE IF closestGraphic.val.geometry = NullGeometry
    THEN [err |-> ErrTypeError, val |-> NullGraphic, point |-> point]
    ELSE WithMValue(feature, point,
                    calculateMeasureFromPoint(engine.nearestPoint,
                                              engine.nearestVertex,
                                              closestGraphic.val))

\* setMValueForFeature; engine holds the answers of the geometry engine for the
\* point of the feature
setMValueForFeature(routeSegments, feature, useGeometry, engine) ==
    MeasureOnClosest(feature, PointOfFeature(feature, useGeometry),
                     findClosestFeature(routeSegments.features, engine.projections),
                     engine)

\* newFeatureSet.features.push(newFeature), unless it is null
Pushed(r, newFeature) ==
    IF newFeature.err # ErrNone THEN [r EXCEPT !.err = newFeature.err]
    ELSE [r EXCEPT !.points = Append(r.points, newFeature.point),
                   !.features = IF newFeature.val = NullGraphic THEN r.features
                                ELSE Append(r.features, newFeature.val)]

RECURSIVE MValuesLoop(_, _, _, _, _, _)
MValuesLoop(i, features, routeSegments, useGeometry, engine, r) ==
    IF i > Len(features) \/ r.err # ErrNone THEN r
    ELSE MValuesLoop(i + 1, features, routeSegments, useGeometry, engine,
                     Pushed(r, setMValueForFeature(routeSegments, features[i],
                                                   useGeometry, engine)))

\* the loop over the input features entered whatever the query came back with
MValuesUnawaited(routeSegments, features, useGeometry, engine) ==
    MValuesLoop(1, features, routeSegments.val, useGeometry, engine,
                [err |-> ErrNone, features |-> <<>>, points |-> <<>>])

\* const routeSegments = await getSegmentsForRoute(...); for (const feature of ...)
MValuesOn(routeSegments, features, useGeometry, engine) ==
    IF routeSegments.err # ErrNone
    THEN [err |-> routeSegments.err, features |-> <<>>, points |-> <<>>]
    ELSE MValuesLoop(1, features, routeSegments.val, useGeometry, engine,
                     [err |-> ErrNone, features |-> <<>>, points |-> <<>>])

\* calculateMValuesFromCoordinates; points lists the points that were located
calculateMValuesFromCoordinates(outcome, features, useGeometry, engine) ==
    MValuesOn(getSegmentsForRoute(outcome), features, useGeometry, engine)

\* GetMValuesFromCoordinatesActivity.execute
execute(inputs, outcome, engine) ==
    calculateMValuesFromCoordinates(
        outcome, inputs.featureSet.features,
        OrFalse(inputs.useGeometry), engine)

-----------------------------------------------------------------------------
(* Calls that locate a point on the route, one call on each input *)

\* the geometry with an empty path put in before path p + 1
WithEmptyPath(geometry, p) ==
    [paths |-> SubSeq(geometry.paths, 1, p) \o <<<<>>>>
                   \o SubSeq(geometry.paths, p + 1, Len(geometry.paths))]

\* the polylines of the vertex indexer: a stored geometry, also with an empty path
IndexedPolylines ==
    UNION { {featureSet.features[f].geometry}
              \cup { WithEmptyPath(featureSet.features[f].geometry, p) :
                       p \in 0 .. Len(featureSet.features[f].geometry.paths) } :
            f \in 1 .. Len(featureSet.features) }

\* getPathIndexForVertexIndex(vertexIndex, geometry)
CallGetPathIndex ==
    /\ pc = "ready"
    /\ \E polyline \in IndexedPolylines :
        \E vertexIndex \in 0 .. getNumberOfVertex(polyline) - 1 :
            ret' = [op |-> "index", polyline |-> polyline,
                    vertexIndex |-> vertexIndex,
                    out |-> getPathIndexForVertexIndex(vertexIndex, polyline)]
    /\ pc' = "called"
    /\ UNCHANGED <<featureSet, featureSetCopy, config, call, before, copyCall>>

VertexOutcome(vertexIndex, polyline, r) ==
    ret' = [op |-> "vertex", polyline |-> polyline, vertexIndex |-> vertexIndex,
            located |-> getPathIndexForVertexIndex(vertexIndex, polyline),
            err |-> r.err, out |-> r.val]

\* getPointAtVertex(vertexIndex, polyline), also on an index no path covers
CallGetPointAtVertex ==
    /\ pc = "ready"
    /\ \E polyline \in IndexedPolylines :
        \E vertexIndex \in -1 .. getNumberOfVertex(polyline) + 1 :
            VertexOutcome(vertexIndex, polyline,
                          getPointAtVertex(vertexIndex, polyline))
    /\ pc' = "called"
    /\ UNCHANGED <<featureSet, featureSetCopy, config, call, before, copyCall>>

LengthOutcome(polyline, r) ==
    ret' = [op |-> "length", polyline |-> polyline, err |-> r.err, out |-> r.val]

\* getLengthOfLineUsingMValue(geometry)
CallGetLength ==
    /\ pc = "ready"
    /\ \E f \in 1 .. Len(featureSet.features) :
        LengthOutcome(featureSet.features[f].geometry,
                      getLengthOfLineUsingMValue(featureSet.features[f].geometry))
    /\ pc' = "called"
    /\ UNCHANGED <<featureSet, featureSetCopy, config, call, before, copyCall>>

StationOutcome(station, feature, r) ==
    ret' = [op |-> "station", station |-> station, polyline |-> feature.geometry,
            err |-> r.err, out |-> r.val]

\* getStationInfoFromSegment(station, segment, config)
CallGetStationInfo ==
    /\ pc = "ready"
    /\ \E f \in 1 .. Len(featureSet.features), station \in HalfSteps :
        StationOutcome(station, featureSet.features[f],
                       getStationInfoFromSegment(station, featureSet.features[f],
                                                 config))
    /\ pc' = "called"
    /\ UNCHANGED <<featureSet, featureSetCopy, config, call, before, copyCall>>

\* the stations of the attribute profiles: up to twice the largest measure
AttributeStations == { Frac(k, 2) : k \in 0 .. (4 * MaxM) }

AttributeStationOutcome(station, feature, target, r) ==
    ret' = [op |-> "attributeStation", station |-> station,
            polyline |-> feature.geometry, attributes |-> feature.attributes,
            target |-> target, err |-> r.err, out |-> r.val]

\* getStationInfoFromSegment(station, segment, config) when the configuration
\* asks for the station attributes of the segment
CallGetStationInfoByAttributes ==
    /\ pc = "ready"
    /\ \E f \in 1 .. Len(featureSet.features), station \in AttributeStations,
          profile \in Profiles :
        LET segment == Feature(f, featureSet.features[f].geometry.paths, profile)
            cfg == [calculateStationUsingAttributes |-> TRUE]
        IN  AttributeStationOutcome(station, segment,
                                    TargetMeasure(station, segment, cfg),
                                    getStationInfoFromSegment(station, segment, cfg))
    /\ pc' = "called"
    /\ UNCHANGED <<featureSet, featureSetCopy, config, call, before, copyCall>>

\* the answers of geometryEngine.nearestCoordinate for one candidate
Projections ==
    {[isEmpty |-> TRUE, distance |-> NaN]}
        \cup { [isEmpty |-> FALSE, distance |-> R(d)] : d \in 1 .. 2 }

\* the first k stored segments as candidates, those in without without geometry
Candidates(k, without) ==
    [i \in 1 .. k |->
        IF i \in without
        THEN [featureSet.features[i] EXCEPT !.geometry = NullGeometry]
        ELSE featureSet.features[i]]

ClosestOutcome(features, projections, r) ==
    ret' = [op |-> "closest", features |-> features, projections |-> projections,
            err |-> r.err, out |-> r.val, calls |-> r.calls]

\* findClosestFeature(features, point)
CallFindClosestFeature ==
    /\ pc = "ready"
    /\ \E k \in 0 .. Len(featureSet.features) :
        \E without \in SUBSET (1 .. k), projections \in [1 .. k -> Projections] :
            ClosestOutcome(Candidates(k, without), projections,
                           findClosestFeature(Candidates(k, without), projections))
    /\ pc' = "called"
    /\ UNCHANGED <<featureSet, featureSetCopy, config, call, before, copyCall>>

SamePath(i, j, geometry) ==
    getPathIndexForVertexIndex(i, geometry).pathIndex
        = getPathIndexForVertexIndex(j, geometry).pathIndex

Midpoint(a, b) ==
    [x |-> Div(Add(a.x, b.x), R(2)), y |-> Div(Add(a.y, b.y), R(2))]

\* the nearest coordinate is vertex k; the engine reports k, or the vertex before
\* it on the same path
OnVertexAnswers(geometry) ==
    { [nearestPoint |-> NearestResult(getPointAtVertex(a[1], geometry).val, a[2]),
       nearestVertex |-> NearestResult(getPointAtVertex(a[1], geometry).val, a[1])] :
      a \in { b \in (0 .. getNumberOfVertex(geometry) - 1)
                    \X (0 .. getNumberOfVertex(geometry) - 1) :
                 \/ b[2] = b[1]
                 \/ b[2] = b[1] - 1 /\ SamePath(b[2], b[1], geometry) } }

\* the nearest coordinate is halfway between vertex i and the next one on its path;
\* the nearest vertex is either of the two
BetweenAnswers(geometry) ==
    { [nearestPoint |->
           NearestResult(Midpoint(getPointAtVertex(a[1], geometry).val,
                                  getPointAtVertex(a[1] + 1, geometry).val), a[1]),
       nearestVertex |-> NearestResult(getPointAtVertex(a[2], geometry).val, a[2])] :
      a \in { b \in (0 .. getNumberOfVertex(geometry) - 2)
                    \X (0 .. getNumberOfVertex(geometry) - 1) :
                 /\ b[2] \in {b[1], b[1] + 1}
                 /\ SamePath(b[1], b[1] + 1, geometry) } }

\* the answers of nearestCoordinate and nearestVertex for a point near the geometry
EngineAnswers(geometry) == OnVertexAnswers(geometry) \cup BetweenAnswers(geometry)

MeasureOutcome(answer, feature, r) ==
    ret' = [op |-> "measure", polyline |-> feature.geometry,
            nearestPoint |-> answer.nearestPoint,
            nearestVertex |-> answer.nearestVertex,
            err |-> r.err, out |-> r.val]

\* calculateMeasureFromPoint(point, nearestSegmentFeature, spatialReference)
CallCalculateMeasure ==
    /\ pc = "ready"
    /\ \E f \in 1 .. Len(featureSet.features) :
        \E answer \in EngineAnswers(featureSet.features[f].geometry) :
            MeasureOutcome(answer, featureSet.features[f],
                calculateMeasureFromPoint(answer.nearestPoint, answer.nearestVertex,
                                          featureSet.features[f]))
    /\ pc' = "called"
    /\ UNCHANGED <<featureSet, featureSetCopy, config, call, before, copyCall>>

ErrNetwork == "Failed to fetch"

\* what executeQueryJSON can come back with for the route of featureSet
QueryOutcomes ==
    {[err |-> ErrNetwork, val |-> NoFeatureSet]}
        \cup { [err |-> ErrNone,
                val |-> [features |-> SubSeq(featureSet.features, 1, k),
                         exceededTransferLimit |-> exceeded]] :
               k \in 0 .. Len(featureSet.features), exceeded \in BOOLEAN }

SegmentsOutcome(outcome, r) ==
    ret' = [op |-> "segments", outcome |-> outcome, err |-> r.err,
            cause |-> r.cause, out |-> r.val, queries |-> r.queries]

\* getSegmentsForRoute(linearReferencingConfig, routeId, spatialReference)
CallGetSegmentsForRoute ==
    /\ pc = "ready"
    /\ \E outcome \in QueryOutcomes :
        SegmentsOutcome(outcome, getSegmentsForRoute(outcome))
    /\ pc' = "called"
    /\ UNCHANGED <<featureSet, featureSetCopy, config, call, before, copyCall>>

\* a point feature whose geometry and whose coordinate attributes disagree
PointFeature(id) ==
    [id |-> id,
     geometry |-> [x |-> R(id), y |-> R(id + 1)],
     attributes |-> [xField |-> R(id + 2), yField |-> R(id + 3),
                     mValue |-> Undefined]]

\* the engine finds stored segment near closest, and answers on its geometry
Engines ==
    UNION { { [projections |->
                   [i \in 1 .. Len(featureSet.features) |->
                       [isEmpty |-> FALSE,
                        distance |-> IF i = near THEN R(0) ELSE R(1)]],
               nearestPoint |-> answer.nearestPoint,
               nearestVertex |-> answer.nearestVertex] :
              answer \in EngineAnswers(featureSet.features[near].geometry) } :
            near \in 1 .. Len(featureSet.features) }

ExecuteOutcome(inputs, outcome, r) ==
    ret' = [op |-> "execute", useGeometry |-> inputs.useGeometry,
            inputs |-> inputs.featureSet.features, resolved |-> outcome.err = ErrNone,
            outcome |-> outcome,
            err |-> r.err, out |-> r.features, points |-> r.points]

ExecuteWith(inputs, outcome, engine) ==
    ExecuteOutcome(inputs, outcome, execute(inputs, outcome, engine))

\* GetMValuesFromCoordinatesActivity.execute(inputs, context)
CallExecute ==
    /\ pc = "ready"
    /\ \E useGeometry \in OptionalBooleans, n \in 1 .. 2,
          outcome \in QueryOutcomes, engine \in Engines :
        ExecuteWith([featureSet |-> [features |-> [i \in 1 .. n |-> PointFeature(i)]],
                     useGeometry |-> useGeometry],
                    outcome, engine)
    /\ pc' = "called"
    /\ UNCHANGED <<featureSet, featureSetCopy, config, call, before, copyCall>>

-----------------------------------------------------------------------------
(* The geometry of the current route *)

\* return { geometry: route.features[0].geometry }
FirstGeometryOf(trimmed) ==
    IF trimmed.err # ErrNone THEN [err |-> trimmed.err, geometry |-> NullGeometry]
    ELSE IF Len(trimmed.featureSet.features) = 0
    THEN [err |-> ErrTypeError, geometry |-> NullGeometry]
    ELSE [err |-> ErrNone, geometry |-> trimmed.featureSet.features[1].geometry]

\* if (inputs.trimToRange) { trimFeatureSetToRange(route, start, end, lrs) }
TrimmedToRange(inputs, route) ==
    IF OrFalse(inputs.trimToRange)
    THEN trimFeatureSetToRange(route, inputs.start, inputs.end, inputs.lrs)
    ELSE [err |-> ErrNone, featureSet |-> route]

\* the steps of execute after the query
GeometryOfRoute(inputs, route) ==
    IF route.err # ErrNone THEN [err |-> route.err, geometry |-> NullGeometry]
    ELSE FirstGeometryOf(TrimmedToRange(inputs, route.val))

\* GetCurrentRouteGeometryActivity.execute(inputs): [err, geometry]
executeGetCurrentRouteGeometry(inputs, outcome) ==
    GeometryOfRoute(inputs, getSegmentsForRoute(outcome))

\* what executeQueryJSON can come back with when returnM and returnZ are asked for
RouteOutcomes ==
    { [err |-> o.err,
       val |-> IF o.err # ErrNone THEN o.val
               ELSE [features |-> o.val.features,
                     exceededTransferLimit |-> o.val.exceededTransferLimit,
                     hasM |-> featureSet.hasM, hasZ |-> featureSet.hasZ]] :
      o \in QueryOutcomes }

RouteGeometryOutcome(inputs, route, r) ==
    ret' = [op |-> "geometry", inputs |-> inputs, route |-> route,
            trimmed |-> IF route.err # ErrNone THEN route.val
                        ELSE TrimmedToRange(inputs, route.val).featureSet,
            err |-> r.err, out |-> r.geometry]

\* GetCurrentRouteGeometryActivity.execute(inputs)
CallGetCurrentRouteGeometry ==
    /\ pc = "ready"
    /\ \E trimToRange \in OptionalBooleans, start \in HalfSteps, end \in HalfSteps,
          calc \in BOOLEAN, outcome \in RouteOutcomes :
        LET inputs == [trimToRange |-> trimToRange, start |-> start, end |-> end,
                       lrs |-> [calculateStationUsingAttributes |-> calc]]
        IN  RouteGeometryOutcome(inputs, getSegmentsForRoute(outcome),
                                 executeGetCurrentRouteGeometry(inputs, outcome))
    /\ pc' = "called"
    /\ UNCHANGED <<featureSet, featureSetCopy, config, call, before, copyCall>>

NextRoute == CallGetCurrentRouteGeometry

InitLocate ==
    \E ms \in MeasureSeqs, shape \in Shapes, hasZ \in BOOLEAN,
       grouping \in Groupings :
        \E cuts \in SUBSET (1 .. Len(ms) - 1) :
            /\ featureSet = FeatureSetOf(ms, cuts, shape, hasZ, "same", grouping)
            /\ featureSetCopy = featureSet
            /\ config = [calculateStationUsingAttributes |-> FALSE]
            /\ pc = "ready"
            /\ call = NoCall
            /\ before = featureSet
            /\ copyCall = NoCall
            /\ ret = NoRet

NextLocate ==
    \/ CallGetPathIndex
    \/ CallGetPointAtVertex
    \/ CallGetLength
    \/ CallGetStationInfo
    \/ CallGetStationInfoByAttributes
    \/ CallFindClosestFeature
    \/ CallCalculateMeasure
    \/ CallGetSegmentsForRoute
    \/ CallExecute

SpecLocate == InitLocate /\ [][NextLocate]_vars

SpecRoute == InitLocate /\ [][NextRoute]_vars

-----------------------------------------------------------------------------
(* Vocabulary of the properties *)

\* the range of the call on featureSet, smaller bound first
RangeLo == MathMin(call.start, call.end)
RangeHi == MathMax(call.start, call.end)

Returned == pc = "returned"
AttributeMode == config.calculateStationUsingAttributes
MeasureMode == ~config.calculateStationUsingAttributes

\* the x, y and measure of a coordinate array
XYM(coordinates) == <<coordinates[1], coordinates[2], MeasureOf(coordinates)>>

PathsOfFeature(f) == f.geometry.paths
VerticesOfFeature(f) ==
    UNION { { PathsOfFeature(f)[p][k] : k \in 1 .. Len(PathsOfFeature(f)[p]) } :
            p \in 1 .. Len(PathsOfFeature(f)) }
FeaturesOf(fs) == { fs.features[i] : i \in 1 .. Len(fs.features) }

\* the feature as it was before the call
Old(f) == CHOOSE g \in FeaturesOf(before) : g.id = f.id

FirstMeasure(f) == MeasureOf(PathsOfFeature(f)[1][1])
LastMeasure(f) ==
    LET p == PathsOfFeature(f)[Len(PathsOfFeature(f))] IN MeasureOf(p[Len(p)])

\* the normalized extent of a feature: station attributes or end vertex measures
RouteMin(f) ==
    IF AttributeMode THEN MathMin(f.attributes.beginStation, f.attributes.endStation)
    ELSE MathMin(FirstMeasure(f), LastMeasure(f))
RouteMax(f) ==
    IF AttributeMode THEN MathMax(f.attributes.beginStation, f.attributes.endStation)
    ELSE MathMax(FirstMeasure(f), LastMeasure(f))

-----------------------------------------------------------------------------
(* C1 *)

\* C1: after trimFeatureSetToRange returns, every vertex that remains has a
\* measure m with min(start, end) <= m <= max(start, end); stated for measure
\* mode, where the range and the vertex measures are the same quantity, and for
\* a range with start # end.
C1_MeasuresWithinRange ==
    (Returned /\ MeasureMode /\ RangeLo # RangeHi) =>
        \A f \in FeaturesOf(featureSet) : \A v \in VerticesOfFeature(f) :
            Le(RangeLo, MeasureOf(v)) /\ Le(MeasureOf(v), RangeHi)

-----------------------------------------------------------------------------
(* C2 *)

SinglePath(fs) == Len(fs.features) = 1 /\ Len(fs.features[1].geometry.paths) = 1
OnlyPath(fs) == fs.features[1].geometry.paths[1]
StrictlyIncreasing(path) ==
    \A k \in 1 .. Len(path) - 1 : Lt(MeasureOf(path[k]), MeasureOf(path[k + 1]))

\* t lies inside the path's extent and on no vertex
StrictlyBetweenVertices(t, path) ==
    /\ Lt(MeasureOf(path[1]), t)
    /\ Lt(t, MeasureOf(path[Len(path)]))
    /\ \A k \in 1 .. Len(path) : MeasureOf(path[k]) # t

\* x, y, m at measure t on the straight line from vertex a to vertex b
LinearBetween(a, b, t) ==
    LET ratio == Div(Sub(t, MeasureOf(a)), Sub(MeasureOf(b), MeasureOf(a)))
    IN  <<Add(a[1], Mul(ratio, Sub(b[1], a[1]))),
          Add(a[2], Mul(ratio, Sub(b[2], a[2]))),
          t>>

\* x, y, m at measure t on the path, between the two vertices around t
LinearOnPath(path, t) ==
    LET k == CHOOSE k \in 1 .. Len(path) - 1 :
                 Lt(MeasureOf(path[k]), t) /\ Lt(t, MeasureOf(path[k + 1]))
    IN  LinearBetween(path[k], path[k + 1], t)

RECURSIVE VerticesInside(_, _, _)
VerticesInside(path, lo, hi) ==
    IF path = <<>> THEN <<>>
    ELSE (IF Lt(lo, MeasureOf(Head(path))) /\ Lt(MeasureOf(Head(path)), hi)
          THEN <<XYM(Head(path))>> ELSE <<>>)
         \o VerticesInside(Tail(path), lo, hi)

ExpectedTrim(path, lo, hi) ==
    <<LinearOnPath(path, lo)>> \o VerticesInside(path, lo, hi)
        \o <<LinearOnPath(path, hi)>>

C2_Case ==
    /\ Returned
    /\ MeasureMode
    /\ SinglePath(before)
    /\ StrictlyIncreasing(OnlyPath(before))
    /\ StrictlyBetweenVertices(RangeLo, OnlyPath(before))
    /\ StrictlyBetweenVertices(RangeHi, OnlyPath(before))

C2_Result ==
    /\ SinglePath(featureSet)
    /\ [k \in 1 .. Len(OnlyPath(featureSet)) |-> XYM(OnlyPath(featureSet)[k])]
           = ExpectedTrim(OnlyPath(before), RangeLo, RangeHi)

-----------------------------------------------------------------------------
(* C3 *)

Ids(features) == [i \in 1 .. Len(features) |-> features[i].id]
StaysInRange(f) == ~(Lt(RouteMax(f), RangeLo) \/ Gt(RouteMin(f), RangeHi))

\* C3: trimFeatureSetToRange removes a feature if and only if its normalized
\* extent satisfies route_max < start or route_min > end; the other features stay,
\* in their original relative order.
C3_RemovesExactlyTheOutsideFeatures ==
    Returned => Ids(featureSet.features) = Ids(SelectSeq(before.features, StaysInRange))

\* of several stored segments, one before it is removed and a later one stays
C3_Witness ==
    /\ Returned
    /\ Len(before.features) >= 2
    /\ Len(featureSet.features) >= 1
    /\ Len(featureSet.features) < Len(before.features)
    /\ featureSet.features[1].id # 1

-----------------------------------------------------------------------------
(* C4 *)

StationsMatchRange(f) ==
    /\ MathMin(f.attributes.beginStation, f.attributes.endStation)
           = MathMax(RouteMin(Old(f)), RangeLo)
    /\ MathMax(f.attributes.beginStation, f.attributes.endStation)
           = MathMin(RouteMax(Old(f)), RangeHi)

\* C4: with calculateStationUsingAttributes true, after trimFeatureSetToRange the
\* station attributes of every remaining feature equal the new boundaries:
\* min(begin, end) = max(old minimum, start) and max(begin, end) = min(old
\* maximum, end), also when one end only is cut and when begin > end; stated for
\* a range with start # end and the features that keep a path.
C4_StationAttributesFollowRange ==
    (Returned /\ AttributeMode /\ RangeLo # RangeHi) =>
        \A f \in FeaturesOf(featureSet) :
            PathsOfFeature(f) # <<>> => StationsMatchRange(f)

-----------------------------------------------------------------------------
(* C5 *)

\* a cut ran on the feature: its extent reached beyond the range at an end
WasTruncated(f) == Lt(RouteMin(Old(f)), RangeLo) \/ Gt(RouteMax(Old(f)), RangeHi)

\* C5: after trimFeatureSetToRange returns no remaining feature has a path with
\* zero vertices, and every path of a feature that was truncated at either end has
\* at least two vertices.
C5_NoEmptyOrSinglePointPath ==
    Returned =>
        \A f \in FeaturesOf(featureSet) : \A p \in 1 .. Len(PathsOfFeature(f)) :
            /\ Len(PathsOfFeature(f)[p]) # 0
            /\ WasTruncated(f) => Len(PathsOfFeature(f)[p]) >= 2

\* a truncated multipart feature lost a path and kept another
C5_Witness ==
    /\ Returned
    /\ \E f \in FeaturesOf(featureSet) :
           /\ WasTruncated(f)
           /\ Len(PathsOfFeature(f)) >= 1
           /\ Len(PathsOfFeature(f)) < Len(PathsOfFeature(Old(f)))

-----------------------------------------------------------------------------
(* C6 *)

\* C6: trimFeatureSetToRange(features, a, b, config) and
\* trimFeatureSetToRange(features, b, a, config) on equal inputs leave equal
\* feature sets (and end the same way).
C6_RangeArgumentsCommute ==
    copyCall.done => featureSetCopy = featureSet /\ copyCall.err = call.err

\* both calls made, the first with the larger bound first, and it cut something
C6_Witness ==
    /\ copyCall.done
    /\ Returned
    /\ Gt(call.start, call.end)
    /\ featureSet # before
    /\ featureSet.features # <<>>

-----------------------------------------------------------------------------
(* C7, C8 *)

MeasuresOfPolyline(polyline) ==
    { getPointAtVertex(i, polyline).val.m : i \in 0 .. getNumberOfVertex(polyline) - 1 }
FirstOfPolyline(polyline) == getPointAtVertex(0, polyline).val.m
LastOfPolyline(polyline) ==
    getPointAtVertex(getNumberOfVertex(polyline) - 1, polyline).val.m
BelowEvery(t, polyline) == \A m \in MeasuresOfPolyline(polyline) : Lt(t, m)
AboveEvery(t, polyline) == \A m \in MeasuresOfPolyline(polyline) : Gt(t, m)
WithinPolyline(t, polyline) == ~BelowEvery(t, polyline) /\ ~AboveEvery(t, polyline)

Found == ret.op = "find"

\* C7: for a polyline of two or more vertices and a target within its overall
\* measure range, findLineSegmentThatContainsMeasure returns a segment of two
\* distinct vertices with min(start.m, end.m) <= target <= max(start.m, end.m).
C7_BracketContainsTarget ==
    (/\ Found
     /\ getNumberOfVertex(ret.polyline) >= 2
     /\ WithinPolyline(ret.measure, ret.polyline)) =>
        /\ ret.err = ErrNone
        /\ ret.outSegment.startPoint # ret.outSegment.endPoint
        /\ Le(MathMin(ret.outSegment.startPoint.m, ret.outSegment.endPoint.m),
              ret.measure)
        /\ Le(ret.measure,
              MathMax(ret.outSegment.startPoint.m, ret.outSegment.endPoint.m))

ThrowsNotFoundExactlyWhenBothEndsExceed ==
    (ret.err = ErrMeasureNotFound) <=>
        (/\ Gt(FirstOfPolyline(ret.polyline), ret.measure)
         /\ Gt(LastOfPolyline(ret.polyline), ret.measure))

\* C8 as claimed: findLineSegmentThatContainsMeasure throws 'Measure value not
\* found' exactly when the first and the last vertex measure are both greater than
\* the target, and it fails for every target below every vertex measure or above
\* every vertex measure.
C8_FailsOutsideTheRange ==
    Found =>
        /\ ThrowsNotFoundExactlyWhenBothEndsExceed
        /\ (BelowEvery(ret.measure, ret.polyline) \/ AboveEvery(ret.measure, ret.polyline))
               => ret.err # ErrNone

\* C8 amended: it throws 'Measure value not found' exactly when the first and the
\* last vertex measure are both greater than the target; so it fails for every
\* target below every vertex measure, and for a target above every vertex measure
\* it does not fail but returns the pair its walk ended on, whose measures lie
\* below the target.
C8_FailsBelowTheRangeOnly ==
    Found =>
        /\ ThrowsNotFoundExactlyWhenBothEndsExceed
        /\ BelowEvery(ret.measure, ret.polyline) => ret.err = ErrMeasureNotFound
        /\ AboveEvery(ret.measure, ret.polyline) =>
               /\ ret.err = ErrNone
               /\ Lt(ret.outSegment.startPoint.m, ret.measure)
               /\ ~Ge(ret.outSegment.endPoint.m, ret.measure)

\* a polyline of decreasing measures and a target below all of them: the throw
C8_Witness ==
    /\ Found
    /\ getNumberOfVertex(ret.polyline) >= 2
    /\ Gt(FirstOfPolyline(ret.polyline), LastOfPolyline(ret.polyline))
    /\ BelowEvery(ret.measure, ret.polyline)
    /\ ret.err = ErrMeasureNotFound

-----------------------------------------------------------------------------
(* C9, C10 *)

Created == ret.op = "point"
SegStart == ret.segment.startPoint
SegEnd == ret.segment.endPoint

OutsideSegment(t) ==
    \/ Lt(t, MathMin(SegStart.m, SegEnd.m))
    \/ Gt(t, MathMax(SegStart.m, SegEnd.m))

\* C9: createPointAtTargetMeasure throws 'Measure value not contained' if and only
\* if the measure lies outside the interval spanned by start.m and end.m, in
\* either order of the two.
C9_ThrowsExactlyOutsideTheSegment ==
    Created => ((ret.err = ErrNotContained) <=> OutsideSegment(ret.measure))

\* the point lies on the straight line between start and end
OnSegment(p) ==
    /\ Mul(Sub(p.x, SegStart.x), Sub(SegEnd.y, SegStart.y))
           = Mul(Sub(p.y, SegStart.y), Sub(SegEnd.x, SegStart.x))
    /\ Le(MathMin(SegStart.x, SegEnd.x), p.x) /\ Le(p.x, MathMax(SegStart.x, SegEnd.x))
    /\ Le(MathMin(SegStart.y, SegEnd.y), p.y) /\ Le(p.y, MathMax(SegStart.y, SegEnd.y))

RatioOf(t) == Div(Sub(t, SegStart.m), Sub(SegEnd.m, SegStart.m))

C10_Case ==
    /\ Created
    /\ Lt(SegStart.m, SegEnd.m)
    /\ Le(SegStart.m, ret.measure)
    /\ Le(ret.measure, SegEnd.m)

\* C10: for start.m < end.m and start.m <= measure <= end.m,
\* createPointAtTargetMeasure returns start's x, y at start.m, end's x, y at end.m,
\* otherwise start + ratio * (end - start) in x and in y with
\* ratio = (measure - start.m) / (end.m - start.m); z is start.z in all three
\* cases, and the point lies on the straight line between start and end.
C10_PointAtMeasure ==
    C10_Case =>
        /\ ret.err = ErrNone
        /\ ret.measure = SegStart.m =>
               ret.outPoint.x = SegStart.x /\ ret.outPoint.y = SegStart.y
        /\ ret.measure = SegEnd.m =>
               ret.outPoint.x = SegEnd.x /\ ret.outPoint.y = SegEnd.y
        /\ (ret.measure # SegStart.m /\ ret.measure # SegEnd.m) =>
               /\ ret.outPoint.x
                      = Add(SegStart.x, Mul(RatioOf(ret.measure), Sub(SegEnd.x, SegStart.x)))
               /\ ret.outPoint.y
                      = Add(SegStart.y, Mul(RatioOf(ret.measure), Sub(SegEnd.y, SegStart.y)))
        /\ ret.outPoint.z = SegStart.z
        /\ OnSegment(ret.outPoint)

\* a point strictly inside a segment with elevation whose ends differ in x, y and z
C10_Witness ==
    /\ C10_Case
    /\ ret.measure # SegStart.m
    /\ ret.measure # SegEnd.m
    /\ SegStart.z # Undefined
    /\ SegStart.z # SegEnd.z
    /\ SegStart.x # SegEnd.x
    /\ ret.outPoint.x # SegStart.x

-----------------------------------------------------------------------------
(* C11 *)

\* C11: for every segment with start.m < end.m and every measure in
\* [start.m, end.m], the measure re-derived from the x coordinate of
\* createPointAtTargetMeasure(measure, segment) by the point-to-measure
\* interpolation is the measure again, in every orientation of the segment,
\* start.x = end.x included; stated for the measures strictly inside, which are
\* the ones calculateMeasureFromPoint interpolates.
C11_RoundTripAlongSegment ==
    (/\ C10_Case
     /\ ret.err = ErrNone
     /\ ret.measure # SegStart.m
     /\ ret.measure # SegEnd.m) =>
        InterpolateMeasure(ret.outPoint, ret.segment) = ret.measure

-----------------------------------------------------------------------------
(* C12 *)

Measured == ret.op = "measure"

\* the nearest coordinate has the x and y of the nearest vertex
OnNearestVertex ==
    /\ ret.nearestPoint.coordinate.x = ret.nearestVertex.coordinate.x
    /\ ret.nearestPoint.coordinate.y = ret.nearestVertex.coordinate.y

-----------------------------------------------------------------------------
(* C13 *)

Indexed == ret.op = "index"

RECURSIVE LengthBefore(_, _)
LengthBefore(paths, pathIndex) ==
    IF pathIndex = 0 THEN 0
    ELSE Len(paths[pathIndex]) + LengthBefore(paths, pathIndex - 1)

\* C13: for a polyline with at least one path and a global index i with
\* 0 <= i < getNumberOfVertex(polyline), getPathIndexForVertexIndex returns
\* (pathIndex, local) with 0 <= local < paths[pathIndex].length and (lengths of
\* the paths before pathIndex) + local = i; no other global index maps to the same
\* pair; also when some path is empty.
C13_IndexAddressesItsVertex ==
    Indexed =>
        /\ ret.out.pathIndex \in 0 .. Len(ret.polyline.paths) - 1
        /\ ret.out.vertexIndex >= 0
        /\ ret.out.vertexIndex < Len(ret.polyline.paths[ret.out.pathIndex + 1])
        /\ LengthBefore(ret.polyline.paths, ret.out.pathIndex) + ret.out.vertexIndex
               = ret.vertexIndex
        /\ \A j \in 0 .. getNumberOfVertex(ret.polyline) - 1 :
               j # ret.vertexIndex =>
                   getPathIndexForVertexIndex(j, ret.polyline) # ret.out

\* the second vertex of a later path, with an empty path before it
C13_Witness ==
    /\ Indexed
    /\ ret.out.pathIndex >= 1
    /\ ret.out.vertexIndex >= 1
    /\ \E j \in 1 .. ret.out.pathIndex : ret.polyline.paths[j] = <<>>

-----------------------------------------------------------------------------
(* C14 *)

\* C14: getLengthOfLineUsingMValue(geometry) returns
\* |m(last vertex of the whole polyline) - m(first vertex of the whole polyline)|
\* for every polyline, multipart polylines included.
C14_LengthIsMeasureSpan ==
    ret.op = "length" =>
        /\ ret.err = ErrNone
        /\ ret.out = MathAbs(Sub(LastOfPolyline(ret.polyline),
                                 FirstOfPolyline(ret.polyline)))

-----------------------------------------------------------------------------
(* C15, C16 *)

Searched == ret.op = "closest"

\* C15: findClosestFeature throws 'Invalid argument' for an empty candidate list,
\* and for a list of exactly one candidate returns that candidate without
\* calling nearestCoordinate, whatever the candidate's geometry.
C15_EmptyAndSingleCandidate ==
    Searched =>
        /\ Len(ret.features) = 0 => ret.err = ErrInvalidArgument
        /\ Len(ret.features) = 1 =>
               /\ ret.err = ErrNone
               /\ ret.out = ret.features[1]
               /\ ret.calls = 0

\* a single candidate without geometry, returned
C15_Witness ==
    /\ Searched
    /\ Len(ret.features) = 1
    /\ ret.features[1].geometry = NullGeometry
    /\ ret.out = ret.features[1]

\* the candidates with a geometry and a non-empty projection
Projected ==
    { i \in 1 .. Len(ret.features) :
        ret.features[i].geometry # NullGeometry /\ ~ret.projections[i].isEmpty }

\* C16: for two or more candidates findClosestFeature returns a candidate with a
\* non-empty projection whose distance is at most that of every other such
\* candidate, the earliest one on ties; candidates without geometry or with an
\* empty projection are never returned; if there is no candidate with a
\* non-empty projection it throws 'Nearest feature was not found'.
C16_ReturnsTheNearestCandidate ==
    (Searched /\ Len(ret.features) >= 2) =>
        IF Projected = {} THEN ret.err = ErrNearestNotFound
        ELSE /\ ret.err = ErrNone
             /\ \E i \in Projected :
                    /\ ret.out = ret.features[i]
                    /\ \A j \in Projected :
                           /\ Le(ret.projections[i].distance,
                                 ret.projections[j].distance)
                           /\ ret.projections[j].distance = ret.projections[i].distance
                                  => i <= j

\* the first candidate cannot be projected on, two later ones tie for the nearest
C16_Witness ==
    /\ Searched
    /\ Len(ret.features) >= 3
    /\ 1 \notin Projected
    /\ ret.err = ErrNone
    /\ \E i \in Projected, j \in Projected :
           /\ i < j
           /\ ret.out = ret.features[i]
           /\ ret.projections[j].distance = ret.projections[i].distance

-----------------------------------------------------------------------------
(* C17 *)

Queried == ret.op = "segments"

\* C17: getSegmentsForRoute either resolves with a feature set of at least one
\* feature that is not flagged exceededTransferLimit, or rejects; it never
\* resolves with an empty or truncated result, and a call issues the segment
\* query at most once.
C17_ResolvesWithSegmentsOrRejects ==
    Queried =>
        /\ ret.queries <= 1
        /\ ret.err = ErrNone =>
               /\ Len(ret.out.features) >= 1
               /\ ~ret.out.exceededTransferLimit
               /\ ret.out = ret.outcome.val
        /\ ret.err # ErrNone => ret.err = ErrQueryFailed /\ ret.cause # ErrNone

\* the service answers with no feature: rejected, after one query
C17_Witness ==
    /\ Queried
    /\ ret.outcome.err = ErrNone
    /\ ret.outcome.val.features = <<>>
    /\ ~ret.outcome.val.exceededTransferLimit
    /\ ret.err = ErrQueryFailed
    /\ ret.cause = ErrNoSegments
    /\ ret.queries = 1

-----------------------------------------------------------------------------
(* C18 *)

Stationed == ret.op = "station"

OnFirstOfDecreasing(station, polyline) ==
    /\ station = FirstOfPolyline(polyline)
    /\ Gt(FirstOfPolyline(polyline), LastOfPolyline(polyline))

-----------------------------------------------------------------------------
(* C19 *)

GeometryPoints(features) ==
    [i \in 1 .. Len(features) |->
        [x |-> features[i].geometry.x, y |-> features[i].geometry.y]]

\* C19: when the useGeometry input of Get M Values From Coordinates is omitted,
\* the activity behaves as for useGeometry true: the point of each feature is
\* taken from its geometry, not from the x and y attribute fields.
C19_OmittedUseGeometryMeansGeometry ==
    (/\ ret.op = "execute"
     /\ ret.useGeometry = Omitted
     /\ ret.err = ErrNone) =>
        ret.points = GeometryPoints(ret.inputs)

-----------------------------------------------------------------------------
(* C20 *)

\* the forward walk ran over every vertex and none reached the target
ForwardWalkCompleted ==
    /\ Found
    /\ ret.err = ErrNone
    /\ getNumberOfVertex(ret.polyline) >= 2
    /\ ~Gt(FirstOfPolyline(ret.polyline), ret.measure)
    /\ \A i \in 1 .. getNumberOfVertex(ret.polyline) - 1 :
           ~Ge(getPointAtVertex(i, ret.polyline).val.m, ret.measure)

\* C20: when findLineSegmentThatContainsMeasure walks all vertices without
\* finding one whose measure reaches the target, it returns the final pair of the
\* polyline: the two endpoints are the last two vertices v[n-2] and v[n-1].
C20_FallbackIsTheFinalPair ==
    ForwardWalkCompleted =>
        {ret.outSegment.startPoint, ret.outSegment.endPoint}
            = { getPointAtVertex(getNumberOfVertex(ret.polyline) - 2,
                                 ret.polyline).val,
                getPointAtVertex(getNumberOfVertex(ret.polyline) - 1,
                                 ret.polyline).val }

-----------------------------------------------------------------------------
(* C21 *)

Located == ret.op = "vertex"

\* no path of the polyline covers the global index of the call: the index is
\* past the last vertex of a polyline of two vertices or more
Uncovered ==
    /\ getNumberOfVertex(ret.polyline) >= 2
    /\ ret.vertexIndex >= getNumberOfVertex(ret.polyline)

\* C21: getPointAtVertex on a global index that no path covers addresses
\* vertex index of path 0 and completes without raising an error.
C21_UncoveredIndexCompletes ==
    (Located /\ Uncovered) =>
        /\ ret.located = [pathIndex |-> 0, vertexIndex |-> ret.vertexIndex]
        /\ ret.err = ErrNone

\* what the call does there: the fallback pair addresses no vertex of path 0
\* and reading the length of that vertex raises a TypeError
C21_UncoveredIndexThrows ==
    (Located /\ Uncovered) =>
        /\ ret.located = [pathIndex |-> 0, vertexIndex |-> ret.vertexIndex]
        /\ ret.err = ErrTypeError

-----------------------------------------------------------------------------
(* C22 *)

Trimmed == call.done /\ ~IsNothingToTrim(before)

\* the measure getPointAtVertex decodes from a coordinate array
DecodedMeasure(coordinates) ==
    getPointAtVertex(0, [paths |-> <<<<coordinates>>>>]).val.m

\* the flag of the feature set says what its coordinate arrays hold
FlagMatchesArrays(fs) ==
    \A f \in FeaturesOf(fs) : \A coordinates \in VerticesOfFeature(f) :
        fs.hasZ <=> Len(coordinates) = 4

\* C22: the position of a coordinate array that trimFeatureSetToRange reads and
\* writes as the measure holds the measure getPointAtVertex decodes from that
\* array, for every vertex of every feature set.
C22_TrimReadsTheDecodedMeasure ==
    Trimmed =>
        \A f \in FeaturesOf(before) : \A coordinates \in VerticesOfFeature(f) :
            At(coordinates, MPosition(before)) = DecodedMeasure(coordinates)

\* the two positions agree on the feature sets whose flag matches their arrays,
\* before the call and in what the call leaves
C22_TrimReadsTheDecodedMeasureOfFlaggedSets ==
    (Trimmed /\ FlagMatchesArrays(before)) =>
        /\ \A f \in FeaturesOf(before) : \A coordinates \in VerticesOfFeature(f) :
               At(coordinates, MPosition(before)) = DecodedMeasure(coordinates)
        /\ \A f \in FeaturesOf(featureSet) : \A coordinates \in VerticesOfFeature(f) :
               At(coordinates, MPosition(featureSet)) = DecodedMeasure(coordinates)

-----------------------------------------------------------------------------
(* C23 *)

StationedEitherWay == ret.op \in {"station", "attributeStation"}

\* the target measure of the call before it is clamped
TargetOfCall ==
    IF ret.op = "station" THEN [err |-> ErrNone, val |-> ret.station] ELSE ret.target

\* the bracketing step of the call
BracketOfCall == findLineSegmentThatContainsMeasure(TargetOfCall.val, ret.polyline)

\* the target measure of the call as createPointAtTargetMeasure receives it
ClampedTargetOfCall ==
    clamp(TargetOfCall.val,
          MathMin(BracketOfCall.val.startPoint.m, BracketOfCall.val.endPoint.m),
          MathMax(BracketOfCall.val.startPoint.m, BracketOfCall.val.endPoint.m))

BracketDidNotThrow ==
    /\ StationedEitherWay
    /\ getNumberOfVertex(ret.polyline) >= 2
    /\ TargetOfCall.err = ErrNone
    /\ BracketOfCall.err = ErrNone

\* C23: on a polyline of two vertices or more, for every station whose bracketing
\* step does not throw, getStationInfoFromSegment does not raise 'Measure value
\* not contained': the bracketing segment has start.m <= end.m and the clamped
\* target lies between the two.
C23_ClampedTargetIsContained ==
    BracketDidNotThrow =>
        /\ ret.err # ErrNotContained
        /\ Le(BracketOfCall.val.startPoint.m, BracketOfCall.val.endPoint.m)
        /\ Le(BracketOfCall.val.startPoint.m, ClampedTargetOfCall)
        /\ Le(ClampedTargetOfCall, BracketOfCall.val.endPoint.m)

\* the case: a station inside a segment of a polyline whose measures decrease,
\* found by the walk from the last vertex, in attribute mode
C23_Witness ==
    /\ BracketDidNotThrow
    /\ ret.op = "attributeStation"
    /\ ret.err = ErrNone
    /\ Lt(BracketOfCall.val.startPoint.m, ClampedTargetOfCall)
    /\ Lt(ClampedTargetOfCall, BracketOfCall.val.endPoint.m)
    /\ Gt(FirstOfPolyline(ret.polyline), LastOfPolyline(ret.polyline))

-----------------------------------------------------------------------------
(* C24 *)

\* C24: every feature that trimFeatureSetToRange leaves in the feature set has
\* a geometry of at least one path, also when the range touches the extent of
\* the feature at one endpoint only or when start = end.
C24_RemainingFeatureHasAPath ==
    Returned => \A f \in FeaturesOf(featureSet) : Len(PathsOfFeature(f)) >= 1

-----------------------------------------------------------------------------
(* C25 *)

Repeated == pc = "repeated"

\* C25: a second trimFeatureSetToRange with the same start, end and config on
\* the result of the first changes nothing: the same features, paths, vertices
\* and station attributes, in measure mode and in attribute mode, for features
\* whose measures increase and for those whose measures decrease.
C25_SecondCallChangesNothing ==
    Repeated => (copyCall.err = ErrNone /\ featureSetCopy = featureSet)

\* the case in which the second call does change nothing: measure mode, a range
\* of two distinct bounds, and no feature left without a path by the first call
C25_SecondCallChangesNothingInMeasureMode ==
    (/\ Repeated
     /\ MeasureMode
     /\ RangeLo # RangeHi
     /\ \A f \in FeaturesOf(featureSet) : Len(PathsOfFeature(f)) >= 1) =>
        (copyCall.err = ErrNone /\ featureSetCopy = featureSet)

-----------------------------------------------------------------------------
(* C26 *)

\* execute was called and its segment query succeeded,
\* on a route whose segments have two vertices or more each
RouteQueried ==
    /\ ret.op = "geometry"
    /\ ret.route.err = ErrNone
    /\ \A f \in FeaturesOf(ret.route.val) : getNumberOfVertex(f.geometry) >= 2

\* C26: whenever the segment query succeeds, GetCurrentRouteGeometryActivity.execute
\* completes and returns the geometry of the first feature that remains, for
\* every trimToRange and every current range.
C26_ReturnsTheFirstGeometry ==
    RouteQueried =>
        /\ ret.err = ErrNone
        /\ ret.out = ret.trimmed.features[1].geometry

\* without trimming the call does so
C26_ReturnsTheFirstGeometryUntrimmed ==
    (RouteQueried /\ ~OrFalse(ret.inputs.trimToRange)) =>
        /\ ret.err = ErrNone
        /\ ret.out = ret.route.val.features[1].geometry

-----------------------------------------------------------------------------
(* C27 *)

Executed == ret.op = "execute"

\* the segment query of the call failed: request error, zero segments, or
\* transfer limit exceeded
QueryFailed == getSegmentsForRoute(ret.outcome).err # ErrNone

\* feature after is feature before with a measure written to its mValue attribute
IsWithMeasure(after, old) ==
    /\ after.attributes.mValue # Undefined
    /\ after = [old EXCEPT !.attributes.mValue = after.attributes.mValue]

\* C27: calculateMValuesFromCoordinates completes the segment query before it
\* touches an input feature: if the query fails the call rejects and no input
\* feature has been located or written; if the call succeeds it returns the
\* input features, in input order, each with its measure in the mValue attribute.
C27_QueryComesBeforeTheFeatures ==
    Executed =>
        /\ QueryFailed =>
               /\ ret.err = ErrQueryFailed
               /\ ret.points = <<>>
               /\ ret.out = <<>>
        /\ (~QueryFailed /\ ret.err = ErrNone) =>
               /\ Len(ret.out) = Len(ret.inputs)
               /\ \A i \in 1 .. Len(ret.out) : IsWithMeasure(ret.out[i], ret.inputs[i])

\* the case: the query succeeds and two input features come back with measures
C27_Witness ==
    /\ Executed
    /\ ~QueryFailed
    /\ ret.err = ErrNone
    /\ Len(ret.inputs) = 2
    /\ Len(ret.out) = 2
    /\ \A i \in 1 .. 2 : IsWithMeasure(ret.out[i], ret.inputs[i])

-----------------------------------------------------------------------------
(* C28 *)

\* the feature set handed to the call is missing, has no feature, or has no
\* hasM flag set
NothingGiven ==
    /\ call.done
    /\ IF before = MissingFeatureSet THEN TRUE
       ELSE Len(before.features) = 0 \/ ~before.hasM

\* C28: trimFeatureSetToRange leaves the feature set as it is (no feature
\* removed, no vertex or attribute modified) when the feature set is missing,
\* has no features, or does not have its hasM flag set, whatever the range.
C28_NothingGivenNothingChanged ==
    NothingGiven => (call.err = ErrNone /\ featureSet = before)

\* the case: a feature set without the hasM flag whose route reaches beyond
\* both bounds of the range, which the call would cut had the flag been set
C28_Witness ==
    /\ NothingGiven
    /\ before # MissingFeatureSet
    /\ Len(before.features) >= 1
    /\ ~before.hasM
    /\ Lt(RangeLo, RangeHi)
    /\ \E f \in FeaturesOf(before) :
           /\ Lt(MathMin(FirstMeasure(f), LastMeasure(f)), RangeLo)
           /\ Gt(MathMax(FirstMeasure(f), LastMeasure(f)), RangeHi)
    /\ featureSet = before

====
